---- MODULE Spec2Model ----
(***************************************************************************)
(* State-machine model of the AngstrOS boot stub and kernel: the UEFI stub *)
(* and the memory map it hands over, the bump heap allocator (called in    *)
(* sequence and by interleaved threads), the free-list heap allocator, the *)
(* region and user frame allocators, the ELF loader, the kernel heap, the  *)
(* kernel's frame traffic and the syscall dispatch loop.  Each subsystem   *)
(* has its own specification (SpecBump, SpecRace, SpecRegion, SpecList,    *)
(* SpecElf, SpecUser, SpecKernel, SpecHeap, SpecSyscall, SpecExit,         *)
(* SpecStub, SpecMutex, SpecCpu, SpecFault); the variables of the          *)
(* subsystems a specification does not exercise stay at their idle values. *)
(***************************************************************************)
EXTENDS Integers, Sequences, FiniteSets, TLC

VARIABLES
    bump,       \* BumpAllocator fields: start, next, end, count (+ panicked)
    bumpHist,   \* observer: blocks of the current generation, live blocks, last call
    memory_map, \* the firmware memory map handed to RegionFrameAllocator::new
    rfa,        \* RegionFrameAllocator: frames (start, end), regions (index)
    rfaHist,    \* observer: frames returned so far, result of the last call
    ll,         \* LinkedListAllocator: the node list (head first), panicked
    llHist,     \* observer: ranges given to init, live allocations, last call
    llMem,      \* heap memory: the words of every live block, by block address
    llCall,     \* observer: arguments and outcome of a realloc that ran last
    elf,        \* ElfInfo: the parsed ELF (program headers, sections) and `user`
    mmu,        \* page table, frame allocator and memory the ELF loader acts on
    ufa,        \* UserFrameAllocator: free (ranges, last pushed last), panicked
    ufaHist,    \* observer: frames handed out, pooled frames in push order, last call
    kern,       \* kernel: frames behind the heap and the user stack, calls made
    sys,        \* the user program and the locals of spawn_user / syscall_loop
    sysLast,    \* observer: the syscall handled last and the state it found
    boot,       \* UEFI stub: position in efi_main, firmware calls made, BootInfo
    race,       \* bump allocator shared by threads: fields, each thread's position
    mx,         \* heap mutex: held, the frames of the call in progress, its arguments
    cpu         \* CPU: RFLAGS.IF, the SERIAL1 lock, the frames of the code in progress

bumpVars   == <<bump, bumpHist>>
regionVars == <<memory_map, rfa, rfaHist>>
listVars   == <<ll, llHist, llMem, llCall>>
elfVars    == <<elf, mmu>>
userVars   == <<ufa, ufaHist>>
kernVars   == <<kern>>
sysVars    == <<sys, sysLast>>
bootVars   == <<boot>>
raceVars   == <<race>>
cpuVars    == <<cpu>>
lockVars   == <<mx>>
vars == <<bump, bumpHist, memory_map, rfa, rfaHist, ll, llHist, llMem, llCall,
          elf, mmu,
          ufa, ufaHist, kern, sys, sysLast, boot, race, mx, cpu>>

(***************************************************************************)
(* Shared helpers                                                          *)
(***************************************************************************)

\* x86_64::align_up / align_down for a power-of-two alignment
AlignUp(addr, align) ==
    IF addr % align = 0 THEN addr ELSE ((addr \div align) + 1) * align

AlignDown(addr, align) == addr - (addr % align)

\* Size4KiB::SIZE
PageSize == 4096

\* a null pointer / Option::None for an address
Null == 0

Max(a, b) == IF a >= b THEN a ELSE b
Min(a, b) == IF a <= b THEN a ELSE b

(***************************************************************************)
(* Bump allocator (kernel/src/allocator/bump.rs), used sequentially        *)
(***************************************************************************)

\* bounds of the bump model
MaxBumpRun == 3
BumpHeapStarts == {4096, 4100}
BumpHeapSizes == {24, 40}
BumpLayouts == [size : {0, 8, 12}, align : {1, 8}]

BumpNew == [start |-> 0, next |-> 0, end |-> 0, count |-> 0, panicked |-> FALSE]

BumpHistNew ==
    [run |-> <<>>, live |-> {}, cycled |-> FALSE, first |-> <<>>,
     last |-> [op |-> "new", layout |-> [size |-> 0, align |-> 1], ret |-> Null,
               countBefore |-> 0, cycledBefore |-> FALSE]]

\* mutant: init without the assertion
BumpInitAnyway(b, heap_start, heap_size) ==
    [b EXCEPT !.next = heap_start,
              !.end = heap_start + heap_size,
              !.start = heap_start]

\* BumpAllocator::init: only an empty heap may be initialised
BumpInitFields(b, heap_start, heap_size) ==
    IF b.count # 0
    THEN [b EXCEPT !.panicked = TRUE]
    ELSE [b EXCEPT !.next = heap_start,
                   !.end = heap_start + heap_size,
                   !.start = heap_start]

\* mutant: the decrement to zero does not reset next
CountDecreaseNoReset(b) == [b EXCEPT !.count = @ - 1]

\* BumpAllocator::count_decrease, run without interference: the
\* compare-exchange sees the value of next it loaded
CountDecrease(b) ==
    LET start == b.start
        next == b.next
        old == b.count
        b1 == [b EXCEPT !.count = old - 1]
    IN IF old = 1
       THEN IF b1.next = next THEN [b1 EXCEPT !.next = start] ELSE b1
       ELSE b1

\* mutant: an allocation that fails leaves the count incremented
BumpAllocateLeak(b, layout) ==
    IF b.start = 0
    THEN [b |-> b, ret |-> Null]
    ELSE LET b1 == [b EXCEPT !.count = @ + 1]
             start_addr == AlignUp(b1.next, layout.align)
             end_addr == start_addr + layout.size
         IN IF end_addr < b1.end
            THEN [b |-> [b1 EXCEPT !.next = end_addr], ret |-> start_addr]
            ELSE [b |-> b1, ret |-> Null]

\* mutant: the block is placed at next without aligning it
BumpAllocateUnaligned(b, layout) ==
    IF b.start = 0
    THEN [b |-> b, ret |-> Null]
    ELSE LET b1 == [b EXCEPT !.count = @ + 1]
             start_addr == b1.next
             end_addr == start_addr + layout.size
         IN IF end_addr < b1.end
            THEN [b |-> [b1 EXCEPT !.next = end_addr], ret |-> start_addr]
            ELSE [b |-> CountDecrease(b1), ret |-> Null]

\* BumpAllocator::allocate
BumpAllocate(b, layout) ==
    IF b.start = 0
    THEN [b |-> b, ret |-> Null]
    ELSE LET b1 == [b EXCEPT !.count = @ + 1]
             start_addr == AlignUp(b1.next, layout.align)
             end_addr == start_addr + layout.size
         IN IF end_addr < b1.end
            THEN [b |-> [b1 EXCEPT !.next = end_addr], ret |-> start_addr]
            ELSE [b |-> CountDecrease(b1), ret |-> Null]

\* BumpAllocator::deallocate
BumpDeallocate(b) == CountDecrease(b)

InitBumpVars ==
    /\ bump = BumpNew
    /\ bumpHist = BumpHistNew

\* ALLOC.init(heap_start, heap_size)
BumpInit ==
    /\ ~bump.panicked
    /\ \E hs \in BumpHeapStarts, hz \in BumpHeapSizes :
          /\ bump' = BumpInitFields(bump, hs, hz)
          /\ bumpHist' =
                IF bump.count # 0
                THEN bumpHist
                ELSE [bumpHist EXCEPT
                        !.cycled = FALSE,
                        !.first = <<>>,
                        !.last = [op |-> "init", layout |-> [size |-> 0, align |-> 1],
                                  ret |-> Null, countBefore |-> bump.count,
                                  cycledBefore |-> FALSE]]

\* GlobalAlloc::alloc
BumpAlloc ==
    /\ ~bump.panicked
    /\ Len(bumpHist.run) < MaxBumpRun
    /\ \E layout \in BumpLayouts :
          LET r == BumpAllocate(bump, layout)
              blk == [addr |-> r.ret, size |-> layout.size, align |-> layout.align]
          IN /\ bump' = r.b
             /\ bumpHist' =
                   [run |-> IF r.ret # Null THEN Append(bumpHist.run, blk)
                            ELSE bumpHist.run,
                    live |-> IF r.ret # Null
                             THEN bumpHist.live \cup {Len(bumpHist.run) + 1}
                             ELSE bumpHist.live,
                    cycled |-> bumpHist.cycled,
                    first |-> IF bump.count = 0 /\ ~bumpHist.cycled /\ bump.start # 0
                              THEN <<[layout |-> layout, ret |-> r.ret]>>
                              ELSE bumpHist.first,
                    last |-> [op |-> "alloc", layout |-> layout, ret |-> r.ret,
                              countBefore |-> bump.count,
                              cycledBefore |-> bumpHist.cycled]]

\* GlobalAlloc::dealloc of a block that is live
BumpDealloc ==
    /\ ~bump.panicked
    /\ \E i \in bumpHist.live :
          LET live2 == bumpHist.live \ {i}
          IN /\ bump' = BumpDeallocate(bump)
             /\ bumpHist' =
                   [run |-> IF live2 = {} THEN <<>> ELSE bumpHist.run,
                    live |-> live2,
                    cycled |-> bumpHist.cycled \/ live2 = {},
                    first |-> bumpHist.first,
                    last |-> [op |-> "dealloc", layout |-> [size |-> 0, align |-> 1],
                              ret |-> Null, countBefore |-> bump.count,
                              cycledBefore |-> bumpHist.cycled]]

(***************************************************************************)
(* Region frame allocator (kernel/src/allocator/region_frame.rs)           *)
(***************************************************************************)

\* bounds of the region model
MaxRegions == 3
RegionStarts == {0, 2048, 16384, 20480}
RegionPageCounts == {0, 2, 4}
MemoryTypes == {"CONVENTIONAL", "RESERVED"}

Descriptors ==
    [ty : MemoryTypes, phys_start : RegionStarts, page_count : RegionPageCounts]

\* the bytes a descriptor covers
DescEnd(d) == d.phys_start + PageSize * d.page_count

\* firmware memory maps do not describe a byte twice
DisjointMap(m) ==
    \A i, j \in DOMAIN m :
        i < j => \/ DescEnd(m[i]) <= m[j].phys_start
                 \/ DescEnd(m[j]) <= m[i].phys_start

MemoryMaps ==
    {m \in UNION {[1..n -> Descriptors] : n \in 0..MaxRegions} : DisjointMap(m)}

\* mutant: the start is aligned down, not up
RegionToFramesDown(region) ==
    [start |-> AlignDown(region.phys_start, PageSize),
     end |-> AlignDown(region.phys_start + PageSize * region.page_count, PageSize)]

\* region_to_frames: PhysFrame::range(start, end), end exclusive
RegionToFrames(region) ==
    [start |-> AlignDown(AlignUp(region.phys_start, PageSize), PageSize),
     end |-> AlignDown(region.phys_start + PageSize * region.page_count, PageSize)]

\* PhysFrameRange::is_empty
FramesEmpty(fr) == ~(fr.start < fr.end)

Usable(region) ==
    region.ty = "CONVENTIONAL" /\ ~FramesEmpty(RegionToFrames(region))

\* mutant: next_region looks at the next descriptor only, without skipping
NextRegionNoSkip(a, m) ==
    IF a.regions > Len(m)
    THEN [a |-> a, found |-> FALSE]
    ELSE IF Usable(m[a.regions])
    THEN [a |-> [a EXCEPT !.regions = @ + 1,
                          !.frames = RegionToFrames(m[a.regions])],
          found |-> TRUE]
    ELSE [a |-> [a EXCEPT !.regions = @ + 1], found |-> FALSE]

\* RegionFrameAllocator::next_region: regions.by_ref().find(..).map(..)
RECURSIVE NextRegion(_, _)
NextRegion(a, m) ==
    IF a.regions > Len(m)
    THEN [a |-> a, found |-> FALSE]
    ELSE LET region == m[a.regions]
             a1 == [a EXCEPT !.regions = @ + 1]
         IN IF Usable(region)
            THEN [a |-> [a1 EXCEPT !.frames = RegionToFrames(region)], found |-> TRUE]
            ELSE NextRegion(a1, m)

\* RegionFrameAllocator::allocate_frame
RECURSIVE AllocateFrame(_, _)
AllocateFrame(a, m) ==
    IF a.frames.start < a.frames.end
    THEN [a |-> [a EXCEPT !.frames.start = @ + PageSize],
          ret |-> a.frames.start, some |-> TRUE]
    ELSE LET n == NextRegion(a, m)
         IN IF n.found THEN AllocateFrame(n.a, m)
            ELSE [a |-> n.a, ret |-> 0, some |-> FALSE]

\* RegionFrameAllocator::new
RegionNew(m) ==
    NextRegion([frames |-> [start |-> 0, end |-> 0], regions |-> 1], m).a

InitRegionVars ==
    /\ memory_map \in MemoryMaps
    /\ rfa = RegionNew(memory_map)
    /\ rfaHist = [returned |-> <<>>, calls |-> 0, lastSome |-> FALSE]

\* calls of allocate_frame made after the allocator first returned None
MaxEmptyCalls == 2

\* a call of allocate_frame
RegionAllocateFrame ==
    /\ rfaHist.calls < Len(rfaHist.returned) + MaxEmptyCalls
    /\ LET r == AllocateFrame(rfa, memory_map)
       IN /\ rfa' = r.a
          /\ rfaHist' = [returned |-> IF r.some THEN Append(rfaHist.returned, r.ret)
                                      ELSE rfaHist.returned,
                         calls |-> rfaHist.calls + 1,
                         lastSome |-> r.some]
          /\ UNCHANGED memory_map

(***************************************************************************)
(* Free-list allocator (kernel/src/allocator/linked_list.rs)               *)
(***************************************************************************)

\* mem::size_of::<Node>() and mem::align_of::<Node>(): a u64 and a reference
NodeSize == 16
NodeAlign == 8

\* address of the head node, which lives inside the allocator's Mutex and
\* not in heap memory
HeadAddr == 1024

\* bounds of the free-list model
MaxLive == 2
ListRanges ==
    {[start |-> 8192, size |-> 64], [start |-> 8256, size |-> 32],
     [start |-> 8320, size |-> 48], [start |-> 8368, size |-> 12]}
ListLayouts ==
    {[size |-> 8, align |-> 8], [size |-> 24, align |-> 8],
     [size |-> 40, align |-> 8], [size |-> 24, align |-> 32]}
ListNewSizes == {8, 24, 56}

\* impl From<Layout> for NodeLayout: align_to(Node::ALIGN), pad_to_align,
\* size at least Node::SIZE
NodeLayoutFrom(layout) ==
    LET align == Max(layout.align, NodeAlign)
        padded == AlignUp(layout.size, align)
    IN [size |-> Max(padded, NodeSize), align |-> align]

\* Option<Hole>::None
NoHole == [addr |-> 0, size |-> 0]
IsSome(h) == h.size # 0

\* Hole::end_addr / Node::end_addr
EndAddr(h) == h.addr + h.size

FitNone == [ok |-> FALSE, before |-> NoHole, start |-> 0, after |-> NoHole]

\* mutant: the block is placed at the start of the hole, aligned or not
FitAllocUnaligned(hole, layout) ==
    LET start == hole.addr
        end == start + layout.size
        excess_after == EndAddr(hole) - end
    IN IF end > EndAddr(hole) THEN FitNone
       ELSE IF excess_after # 0 /\ excess_after < NodeSize THEN FitNone
       ELSE [ok |-> TRUE, before |-> NoHole, start |-> start,
             after |-> IF excess_after = 0 THEN NoHole
                       ELSE [addr |-> end, size |-> excess_after]]

\* mutant: a trailing residue smaller than a node is accepted
FitAllocAnyTail(hole, layout) ==
    LET start == AlignUp(hole.addr, layout.align)
        end == start + layout.size
        excess_before == start - hole.addr
        excess_after == EndAddr(hole) - end
    IN IF end > EndAddr(hole) THEN FitNone
       ELSE IF excess_before # 0 /\ excess_before < NodeSize THEN FitNone
       ELSE [ok |-> TRUE,
             before |-> IF excess_before = 0 THEN NoHole
                        ELSE [addr |-> hole.addr, size |-> excess_before],
             start |-> start,
             after |-> IF excess_after = 0 THEN NoHole
                       ELSE [addr |-> end, size |-> excess_after]]

\* Hole::fit_alloc
FitAlloc(hole, layout) ==
    LET start == AlignUp(hole.addr, layout.align)
        end == start + layout.size
        excess_before == start - hole.addr
        excess_after == EndAddr(hole) - end
    IN IF end > EndAddr(hole) THEN FitNone
       ELSE IF excess_before # 0 /\ excess_before < NodeSize THEN FitNone
       ELSE IF excess_after # 0 /\ excess_after < NodeSize THEN FitNone
       ELSE [ok |-> TRUE,
             before |-> IF excess_before = 0 THEN NoHole
                        ELSE [addr |-> hole.addr, size |-> excess_before],
             start |-> start,
             after |-> IF excess_after = 0 THEN NoHole
                       ELSE [addr |-> end, size |-> excess_after]]

\* Node::remove_next on the node before index i: unlink node i
RemoveAt(nodes, i) ==
    [k \in 1..(Len(nodes) - 1) |-> IF k < i THEN nodes[k] ELSE nodes[k + 1]]

\* Node::insert: link a node right after index i
InsertAfter(nodes, i, hole) ==
    [k \in 1..(Len(nodes) + 1) |->
        IF k <= i THEN nodes[k] ELSE IF k = i + 1 THEN hole ELSE nodes[k - 1]]

\* Node::insert_hole with the assertions of Hole::to_static_node
InsertHole(nodes, i, hole) ==
    IF hole.size >= NodeSize /\ hole.addr % NodeAlign = 0
    THEN [nodes |-> InsertAfter(nodes, i, hole), panicked |-> FALSE]
    ELSE [nodes |-> nodes, panicked |-> TRUE]

\* mutant: the hole is never merged with the node that follows it
RECURSIVE PushNoMergeAt(_, _, _)
PushNoMergeAt(nodes, i, hole) ==
    IF i < Len(nodes) /\ nodes[i + 1].addr < hole.addr
    THEN PushNoMergeAt(nodes, i + 1, hole)
    ELSE IF hole.addr = EndAddr(nodes[i])
         THEN [nodes |-> [nodes EXCEPT ![i].size = @ + hole.size],
               panicked |-> FALSE]
         ELSE InsertHole(nodes, i, hole)

\* mutant: the hole is never merged into the node before it
RECURSIVE PushNoPredMergeAt(_, _, _)
PushNoPredMergeAt(nodes, i, hole) ==
    IF i < Len(nodes) /\ nodes[i + 1].addr < hole.addr
    THEN PushNoPredMergeAt(nodes, i + 1, hole)
    ELSE LET merge == i < Len(nodes) /\ nodes[i + 1].addr = hole.addr + hole.size
             hole2 == IF merge THEN [hole EXCEPT !.size = @ + nodes[i + 1].size]
                      ELSE hole
             nodes2 == IF merge THEN RemoveAt(nodes, i + 1) ELSE nodes
         IN InsertHole(nodes2, i, hole2)

\* LinkedListAllocator::push from the node at index i on
RECURSIVE PushAt(_, _, _)
PushAt(nodes, i, hole) ==
    IF i < Len(nodes) /\ nodes[i + 1].addr < hole.addr
    THEN PushAt(nodes, i + 1, hole)
    ELSE LET merge == i < Len(nodes) /\ nodes[i + 1].addr = hole.addr + hole.size
             hole2 == IF merge THEN [hole EXCEPT !.size = @ + nodes[i + 1].size]
                      ELSE hole
             nodes2 == IF merge THEN RemoveAt(nodes, i + 1) ELSE nodes
         IN IF hole2.addr = EndAddr(nodes2[i])
            THEN [nodes |-> [nodes2 EXCEPT ![i].size = @ + hole2.size],
                  panicked |-> FALSE]
            ELSE InsertHole(nodes2, i, hole2)

\* LinkedListAllocator::push
Push(nodes, hole) == PushAt(nodes, 1, hole)

\* the list update of allocate once the node after index i fits
TakeFit(nodes, i, fit) ==
    LET hasBefore == IsSome(fit.before)
        nodes1 == IF hasBefore
                  THEN [nodes EXCEPT ![i + 1].size = fit.before.size]
                  ELSE RemoveAt(nodes, i + 1)
        current == IF hasBefore THEN i + 1 ELSE i
        ins == IF IsSome(fit.after) THEN InsertHole(nodes1, current, fit.after)
               ELSE [nodes |-> nodes1, panicked |-> FALSE]
    IN [nodes |-> ins.nodes, panicked |-> ins.panicked, ret |-> fit.start]

\* mutant: the walk prefers a later hole that fits (last fit)
RECURSIVE AllocateLastAt(_, _, _)
AllocateLastAt(nodes, i, layout) ==
    IF i > Len(nodes)
    THEN [nodes |-> nodes, panicked |-> FALSE, ret |-> Null]
    ELSE LET later == AllocateLastAt(nodes, i + 1, layout)
         IN IF later.ret # Null THEN later
            ELSE IF i < Len(nodes) /\ FitAlloc(nodes[i + 1], layout).ok
                 THEN TakeFit(nodes, i, FitAlloc(nodes[i + 1], layout))
                 ELSE later

\* LinkedListAllocator::allocate from the node at index i on
RECURSIVE AllocateAt(_, _, _)
AllocateAt(nodes, i, layout) ==
    IF i > Len(nodes)
    THEN [nodes |-> nodes, panicked |-> FALSE, ret |-> Null]
    ELSE IF i < Len(nodes) /\ FitAlloc(nodes[i + 1], layout).ok
         THEN TakeFit(nodes, i, FitAlloc(nodes[i + 1], layout))
         ELSE AllocateAt(nodes, i + 1, layout)

\* LinkedListAllocator::allocate
Allocate(nodes, layout) == AllocateAt(nodes, 1, layout)

\* LinkedListAllocator::deallocate
Deallocate(nodes, addr, layout) == Push(nodes, [addr |-> addr, size |-> layout.size])

\* reallocate's fallback: a fresh block, copy, deallocate the old one;
\* `moved` tells that the copy ran
ReallocFallback(nodes, addr, layout, new_layout) ==
    LET a == Allocate(nodes, new_layout)
    IN IF a.panicked
       THEN [nodes |-> a.nodes, panicked |-> TRUE, ret |-> a.ret, moved |-> FALSE]
       ELSE IF a.ret = Null
            THEN [nodes |-> nodes, panicked |-> FALSE, ret |-> Null,
                  moved |-> FALSE]
            ELSE LET d == Deallocate(a.nodes, addr, layout)
                 IN [nodes |-> d.nodes, panicked |-> d.panicked, ret |-> a.ret,
                     moved |-> TRUE]

\* mutant: the residue of an in-place reallocation is not published
GrowInPlaceDropTail(nodes, i, fit, addr) ==
    IF IsSome(fit.before) \/ fit.start # addr
    THEN [nodes |-> nodes, panicked |-> TRUE, ret |-> Null, moved |-> FALSE]
    ELSE [nodes |-> nodes, panicked |-> FALSE, ret |-> addr, moved |-> FALSE]

\* reallocate's in-place result: assert!(before.is_none()),
\* assert_eq!(addr, start), then publish the residue after index i
GrowInPlace(nodes, i, fit, addr) ==
    IF IsSome(fit.before) \/ fit.start # addr
    THEN [nodes |-> nodes, panicked |-> TRUE, ret |-> Null, moved |-> FALSE]
    ELSE LET ins == IF IsSome(fit.after) THEN InsertHole(nodes, i, fit.after)
                    ELSE [nodes |-> nodes, panicked |-> FALSE]
         IN [nodes |-> ins.nodes, panicked |-> ins.panicked, ret |-> addr,
             moved |-> FALSE]

\* the list traversal of reallocate from the node at index i on
RECURSIVE ReallocateAt(_, _, _, _, _)
ReallocateAt(nodes, i, hole, layout, new_layout) ==
    IF i < Len(nodes)
    THEN IF nodes[i + 1].addr < hole.addr
         THEN ReallocateAt(nodes, i + 1, hole, layout, new_layout)
         ELSE IF nodes[i + 1].addr = EndAddr(hole)
              THEN LET grown == [hole EXCEPT !.size = @ + nodes[i + 1].size]
                       fit == FitAlloc(grown, new_layout)
                   IN IF fit.ok
                      THEN GrowInPlace(RemoveAt(nodes, i + 1), i, fit, hole.addr)
                      ELSE ReallocFallback(nodes, hole.addr, layout, new_layout)
              ELSE ReallocFallback(nodes, hole.addr, layout, new_layout)
    ELSE LET fit == FitAlloc(hole, new_layout)
         IN IF fit.ok
            THEN GrowInPlace(nodes, i, fit, hole.addr)
            ELSE ReallocFallback(nodes, hole.addr, layout, new_layout)

\* LinkedListAllocator::reallocate
Reallocate(nodes, addr, layout, new_size) ==
    LET hole == [addr |-> addr, size |-> layout.size]
        new_layout == NodeLayoutFrom([size |-> new_size, align |-> layout.align])
        fit == FitAlloc(hole, new_layout)
    IN IF fit.ok /\ ~IsSome(fit.after)
       THEN IF IsSome(fit.before) \/ fit.start # addr
            THEN [nodes |-> nodes, panicked |-> TRUE, ret |-> Null, moved |-> FALSE]
            ELSE [nodes |-> nodes, panicked |-> FALSE, ret |-> addr, moved |-> FALSE]
       ELSE ReallocateAt(nodes, 1, hole, layout, new_layout)

\* heap memory as the model keeps it: one value per word (NodeAlign bytes) of
\* every live block.  A caller's datum is its position in the block, 0 is a
\* word nobody wrote yet, a node's size field is kept as -size and its next
\* field as -1.
Words(size) == size \div NodeAlign
MemNew == <<>>
WordAddr(addr, k) == addr + (k - 1) * NodeAlign

\* node_ptr.write(node) of Hole::to_static_node and the size updates of push
\* and allocate, as they land in tracked memory: every node on the list
\* holds its two fields at its address
WriteNodes(data, nodes) ==
    [b \in DOMAIN data |->
        [k \in 1..Len(data[b]) |->
            IF \E i \in 2..Len(nodes) : nodes[i].addr = WordAddr(b, k)
            THEN 0 - (CHOOSE i \in 2..Len(nodes) : nodes[i].addr = WordAddr(b, k))
            ELSE IF \E i \in 2..Len(nodes) :
                        nodes[i].addr + NodeAlign = WordAddr(b, k)
                 THEN 0 - 1
                 ELSE data[b][k]]]

\* a block that became live, with the words it holds
TrackBlock(data, addr, words) ==
    [b \in DOMAIN data \cup {addr} |->
        IF b = addr THEN words ELSE data[b]]

\* the caller fills the block it was given: layout.size bytes of its own
CallerData(layout) ==
    [k \in 1..Words(NodeLayoutFrom(layout).size) |->
        IF k <= Words(layout.size) THEN k ELSE 0]

Untrack(data, addr) == [b \in DOMAIN data \ {addr} |-> data[b]]

\* a block resized where it is keeps its leading words
Resized(words, size) ==
    [k \in 1..Words(size) |-> IF k <= Len(words) THEN words[k] ELSE 0]

\* ptr::copy_nonoverlapping(addr, new_addr, count) into the fresh block
CopyBlock(data, addr, new_addr, count, new_size) ==
    TrackBlock(data, new_addr,
               [k \in 1..Words(new_size) |->
                   IF k <= Words(count) THEN data[addr][k] ELSE 0])

\* mutant: the old block is handed back before its bytes are copied
FallbackMemFreeFirst(data, nodes, addr, layout, new_layout) ==
    LET a == Allocate(nodes, new_layout)
        d == Deallocate(a.nodes, addr, layout)
        m1 == WriteNodes(data, a.nodes)
        m2 == WriteNodes(m1, d.nodes)
        m3 == CopyBlock(m2, addr, a.ret, Min(layout.size, new_layout.size),
                        new_layout.size)
    IN Untrack(m3, addr)

\* memory through reallocate's fallback when the fresh block was found:
\* allocate writes its nodes, the bytes are copied, deallocate writes its node
FallbackMem(data, nodes, addr, layout, new_layout) ==
    LET a == Allocate(nodes, new_layout)
        d == Deallocate(a.nodes, addr, layout)
        m1 == WriteNodes(data, a.nodes)
        m2 == CopyBlock(m1, addr, a.ret, Min(layout.size, new_layout.size),
                        new_layout.size)
        m3 == WriteNodes(m2, d.nodes)
    IN Untrack(m3, addr)

\* memory after a reallocate with result r
ReallocateMem(data, nodes, addr, layout, new_size, r) ==
    LET new_layout == NodeLayoutFrom([size |-> new_size, align |-> layout.align])
    IN IF r.moved
       THEN FallbackMem(data, nodes, addr, layout, new_layout)
       ELSE IF r.ret = Null \/ r.panicked
            THEN WriteNodes(data, r.nodes)
            ELSE WriteNodes([data EXCEPT ![addr] = Resized(@, new_layout.size)],
                            r.nodes)

NoCall ==
    [op |-> "none", addr |-> Null, layout |-> [size |-> 0, align |-> 1],
     new_size |-> 0, words |-> <<>>]

\* LinkedListAllocator::new: Mutex::new(Node::new(0))
ListNew == [nodes |-> <<[addr |-> HeadAddr, size |-> 0]>>, panicked |-> FALSE]

ListHistNew ==
    [given |-> {}, live |-> {},
     last |-> [op |-> "new", layout |-> [size |-> 0, align |-> 1], ret |-> Null,
               before |-> <<>>]]

InitListVars ==
    /\ ll = ListNew
    /\ llHist = ListHistNew
    /\ llMem = MemNew
    /\ llCall = NoCall

RangesOverlap(r1, r2) ==
    r1.start < r2.start + r2.size /\ r2.start < r1.start + r1.size

\* LinkedListAllocator::init with a range that overlaps none given before
ListInit ==
    /\ ~ll.panicked
    /\ \E r \in ListRanges :
          /\ \A g \in llHist.given : ~RangesOverlap(r, g)
          /\ LET p == Push(ll.nodes, [addr |-> r.start, size |-> r.size])
             IN /\ ll' = [nodes |-> p.nodes, panicked |-> p.panicked]
                /\ llMem' = WriteNodes(llMem, p.nodes)
                /\ llCall' = NoCall
                /\ llHist' =
                      [llHist EXCEPT
                         !.given = IF p.panicked THEN @ ELSE @ \cup {r},
                         !.last = [op |-> "init", layout |-> [size |-> 0, align |-> 1],
                                   ret |-> Null, before |-> <<>>]]

\* GlobalAlloc::alloc
ListAlloc ==
    /\ ~ll.panicked
    /\ Cardinality(llHist.live) < MaxLive
    /\ \E layout \in ListLayouts :
          LET a == Allocate(ll.nodes, NodeLayoutFrom(layout))
          IN /\ ll' = [nodes |-> a.nodes, panicked |-> a.panicked]
             /\ llMem' =
                   IF a.ret # Null /\ ~a.panicked
                   THEN TrackBlock(WriteNodes(llMem, a.nodes), a.ret,
                                   CallerData(layout))
                   ELSE WriteNodes(llMem, a.nodes)
             /\ llCall' = NoCall
             /\ llHist' =
                   [llHist EXCEPT
                      !.live = IF a.ret # Null /\ ~a.panicked
                               THEN @ \cup {[addr |-> a.ret, size |-> layout.size,
                                             align |-> layout.align]}
                               ELSE @,
                      !.last = [op |-> "alloc", layout |-> layout, ret |-> a.ret,
                                before |-> ll.nodes]]

\* GlobalAlloc::dealloc of a live block with the layout it was allocated with
ListFree ==
    /\ ~ll.panicked
    /\ \E blk \in llHist.live :
          LET layout == [size |-> blk.size, align |-> blk.align]
              d == Deallocate(ll.nodes, blk.addr, NodeLayoutFrom(layout))
              roundTrip == /\ llHist.last.op = "alloc"
                           /\ llHist.last.ret = blk.addr
                           /\ llHist.last.layout = layout
          IN /\ ll' = [nodes |-> d.nodes, panicked |-> d.panicked]
             /\ llMem' = WriteNodes(Untrack(llMem, blk.addr), d.nodes)
             /\ llCall' = NoCall
             /\ llHist' =
                   [llHist EXCEPT
                      !.live = @ \ {blk},
                      !.last = [op |-> IF roundTrip THEN "free_after_alloc" ELSE "free",
                                layout |-> layout, ret |-> Null,
                                before |-> IF roundTrip THEN llHist.last.before
                                           ELSE <<>>]]

\* GlobalAlloc::realloc of a live block
ListRealloc ==
    /\ ~ll.panicked
    /\ \E blk \in llHist.live, new_size \in ListNewSizes :
          LET layout == [size |-> blk.size, align |-> blk.align]
              r == Reallocate(ll.nodes, blk.addr, NodeLayoutFrom(layout), new_size)
          IN /\ ll' = [nodes |-> r.nodes, panicked |-> r.panicked]
             /\ LET mem == ReallocateMem(llMem, ll.nodes, blk.addr,
                                         NodeLayoutFrom(layout), new_size, r)
                    returned == r.ret # Null /\ ~r.panicked
                IN \* the words realloc handed back, then the caller's own
                   /\ llCall' =
                         [op |-> "realloc", addr |-> blk.addr, layout |-> layout,
                          new_size |-> new_size,
                          words |-> IF returned THEN mem[r.ret] ELSE <<>>]
                   /\ llMem' =
                         IF returned
                         THEN [mem EXCEPT ![r.ret] =
                                 CallerData([size |-> new_size,
                                             align |-> blk.align])]
                         ELSE mem
             /\ llHist' =
                   [llHist EXCEPT
                      !.live = IF r.ret # Null /\ ~r.panicked
                               THEN (@ \ {blk}) \cup
                                    {[addr |-> r.ret, size |-> new_size,
                                      align |-> blk.align]}
                               ELSE @,
                      !.last = [op |-> "realloc",
                                layout |-> [size |-> new_size, align |-> blk.align],
                                ret |-> r.ret, before |-> <<>>]]

(***************************************************************************)
(* User frame allocator (kernel/src/allocator/user_frame.rs) on top of a   *)
(* RegionFrameAllocator (rfa, memory_map).  A frame is named by its start  *)
(* address; frame + 1 is the address plus PageSize.  The free pool is a    *)
(* sequence of inclusive ranges [start, end]; Vec::last is its last one.   *)
(***************************************************************************)

\* frames the model pulls from the backing allocator
MaxPulled == 4

\* UserFrameAllocator::new
UserNew == [free |-> <<>>, panicked |-> FALSE]

\* mutant: a frame just below the last range overwrites its end
UserPushClobber(u, frame) ==
    LET n == Len(u.free) IN
    IF n > 0 /\ frame - PageSize = u.free[n].end
    THEN [u EXCEPT !.free[n].end = frame]
    ELSE IF n > 0 /\ frame + PageSize = u.free[n].start
    THEN [u EXCEPT !.free[n].end = frame]
    ELSE [u EXCEPT !.free = Append(@, [start |-> frame, end |-> frame])]

\* UserFrameAllocator::push.  `frame - 1` is a checked subtraction on the
\* frame's address: it panics for frame 0.
UserPush(u, frame) ==
    LET n == Len(u.free) IN
    IF n = 0
    THEN [u EXCEPT !.free = Append(@, [start |-> frame, end |-> frame])]
    ELSE IF frame - PageSize < 0
    THEN [u EXCEPT !.panicked = TRUE]
    ELSE IF frame - PageSize = u.free[n].end
    THEN [u EXCEPT !.free[n].end = frame]
    ELSE IF frame + PageSize = u.free[n].start
    THEN [u EXCEPT !.free[n].start = frame]
    ELSE [u EXCEPT !.free = Append(@, [start |-> frame, end |-> frame])]

\* mutant: pop takes the lowest frame of the last range
UserPopFront(u) ==
    LET n == Len(u.free) IN
    IF n = 0 THEN [u |-> u, ret |-> 0, some |-> FALSE]
    ELSE [u |-> IF u.free[n].start = u.free[n].end
                THEN [u EXCEPT !.free = SubSeq(@, 1, n - 1)]
                ELSE [u EXCEPT !.free[n].start = @ + PageSize],
          ret |-> u.free[n].start, some |-> TRUE]

\* UserFrameAllocator::pop.  `last.end -= 1` is the same checked
\* subtraction; PhysFrameRangeInclusive::is_empty is start > end.
UserPop(u) ==
    LET n == Len(u.free) IN
    IF n = 0 THEN [u |-> u, ret |-> 0, some |-> FALSE]
    ELSE LET frame == u.free[n].end IN
         IF frame - PageSize < 0
         THEN [u |-> [u EXCEPT !.panicked = TRUE], ret |-> 0, some |-> FALSE]
         ELSE [u |-> IF u.free[n].start > frame - PageSize
                     THEN [u EXCEPT !.free = SubSeq(@, 1, n - 1)]
                     ELSE [u EXCEPT !.free[n].end = frame - PageSize],
               ret |-> frame, some |-> TRUE]

\* FrameAllocator::allocate_frame: self.pop().or_else(|| backing.allocate_frame())
UserAllocateFrame(u, backing, m) ==
    LET p == UserPop(u) IN
    IF p.some \/ p.u.panicked
    THEN [u |-> p.u, backing |-> backing, ret |-> p.ret, some |-> p.some,
          pulled |-> FALSE]
    ELSE LET b == AllocateFrame(backing, m) IN
         [u |-> p.u, backing |-> b.a, ret |-> b.ret, some |-> b.some,
          pulled |-> b.some]

\* FrameDeallocator::deallocate_frame
UserDeallocateFrame(u, frame) == UserPush(u, frame)

\* memory maps behind the backing allocator: one or two usable descriptors
UserMemoryMaps ==
    {m \in MemoryMaps :
        /\ Len(m) \in 1..2
        /\ \A i \in 1..Len(m) : m[i].ty = "CONVENTIONAL" /\ m[i].page_count > 0}

UserHistNew ==
    [out |-> {}, order |-> <<>>, pulled |-> 0,
     last |-> [op |-> "new", frame |-> 0, ret |-> 0, some |-> FALSE,
               freeBefore |-> <<>>, orderBefore |-> <<>>,
               backingBefore |-> RegionNew(<<>>), again |-> FALSE]]

InitUserVars ==
    /\ memory_map \in UserMemoryMaps
    /\ rfa = RegionNew(memory_map)
    /\ rfaHist = [returned |-> <<>>, calls |-> 0, lastSome |-> FALSE]
    /\ ufa = UserNew
    /\ ufaHist = UserHistNew

\* the sequence without its elements equal to x
RECURSIVE Without(_, _)
Without(seq, x) ==
    IF seq = <<>> THEN <<>>
    ELSE IF Head(seq) = x THEN Without(Tail(seq), x)
    ELSE <<Head(seq)>> \o Without(Tail(seq), x)

\* a call of allocate_frame
UserAlloc ==
    /\ ~ufa.panicked
    /\ ufa.free # <<>> \/ ufaHist.pulled < MaxPulled
    /\ LET r == UserAllocateFrame(ufa, rfa, memory_map) IN
       /\ ufa' = r.u
       /\ rfa' = r.backing
       /\ ufaHist' =
            [out |-> IF r.some THEN ufaHist.out \cup {r.ret} ELSE ufaHist.out,
             order |-> IF r.some THEN Without(ufaHist.order, r.ret)
                                 ELSE ufaHist.order,
             pulled |-> ufaHist.pulled + (IF r.pulled THEN 1 ELSE 0),
             last |-> [op |-> "alloc", frame |-> 0, ret |-> r.ret, some |-> r.some,
                       freeBefore |-> ufa.free, orderBefore |-> ufaHist.order,
                       backingBefore |-> rfa,
                       again |-> r.some /\ r.ret \in ufaHist.out]]
    /\ UNCHANGED <<memory_map, rfaHist>>

\* a call of deallocate_frame with a frame that is in use (handed out and
\* not pooled)
UserDealloc ==
    /\ ~ufa.panicked
    /\ \E frame \in ufaHist.out :
         LET u == UserDeallocateFrame(ufa, frame) IN
         /\ ufa' = u
         /\ ufaHist' =
              [out |-> IF u.panicked THEN ufaHist.out ELSE ufaHist.out \ {frame},
               order |-> IF u.panicked THEN ufaHist.order
                                       ELSE Append(ufaHist.order, frame),
               pulled |-> ufaHist.pulled,
               last |-> [op |-> "dealloc", frame |-> frame, ret |-> 0,
                         some |-> FALSE, freeBefore |-> ufa.free,
                         orderBefore |-> ufaHist.order, backingBefore |-> rfa,
                         again |-> FALSE]]
    /\ UNCHANGED <<memory_map, rfa, rfaHist>>

(***************************************************************************)
(* ELF loader (common/src/elf.rs): setup_mappings, load_segment, relocate, *)
(* remove_mappings, unload_segment, over a 4-level page table and a frame  *)
(* allocator.                                                              *)
(*                                                                         *)
(* Addresses below 2^31 are plain integers (they all lie in level-4 slot   *)
(* 0).  A pointer is a record [slot, off]: slot 1 is the window at         *)
(* boot::offset::USIZE through which the kernel sees all physical memory.  *)
(*                                                                         *)
(* A byte of memory is described symbolically: byte `off` of the ELF file, *)
(* a zero byte, a byte written by a relocation, or a stale byte (whatever  *)
(* the frame held before).  `mmu.writes` is the log of the stores made by  *)
(* the loader, so that the contents of a physical address is the last      *)
(* store that covers it; `mmu.derefs` is the log of the pointers the       *)
(* loader dereferenced, faulting ones included.                            *)
(***************************************************************************)

\* Option::None for a frame or a physical address; a pointer that faults
NoFrame == 0 - 1
Fault == 0 - 2

\* ElfInfo::offset: load base of a position-independent (SharedObject) ELF
UserBase == 1048576
KernelBase == 2097152

ElfOffset(e) ==
    IF e.pie THEN (IF e.user THEN UserBase ELSE KernelBase) ELSE 0

\* span of virtual addresses covered by one level-3 / level-2 table entry
P3Span == 1073741824
P2Span == 2097152

\* physical address of the embedded ELF image (Elf<N>, aligned to a page)
ImagePhys == 8388608
\* its length in pages
ImagePages == 8
\* virtual address of the image inside the kernel (the static USER)
KernelImageVirt == 2621440
\* first frame the frame allocator hands out
PoolBase == 4194304
\* frame behind a kernel page whose virtual address equals the physical
\* address X of another frame: X + AliasShift
AliasShift == 16777216

InImage(p) == ImagePhys <= p /\ p < ImagePhys + ImagePages * PageSize

PageOf(addr) == AlignDown(addr, PageSize)

\* the level-3, level-2 and level-1 tables on the walk to `page`
TableKeys(page) ==
    << <<3, 0>>, <<2, page \div P3Span>>, <<1, page \div P2Span>> >>

ElfOk(s) == s.status = "ok"

ElfFail(s, why) == [s EXCEPT !.status = why]

\* FrameAllocator::allocate_frame of the allocator handed to the loader
ElfAllocateFrame(s) ==
    IF s.pool = <<>>
    THEN [s |-> s, frame |-> NoFrame]
    ELSE [s |-> [s EXCEPT !.pool = Tail(@)], frame |-> Head(s.pool)]

\* Mapper::map_to, the walk: a missing table takes a frame from the allocator
RECURSIVE CreateTables(_, _, _)
CreateTables(s, keys, k) ==
    IF k > Len(keys) THEN s
    ELSE IF keys[k] \in s.tables THEN CreateTables(s, keys, k + 1)
    ELSE LET a == ElfAllocateFrame(s) IN
         IF a.frame = NoFrame
         THEN ElfFail(a.s, "Mapping error")
         ELSE CreateTables([a.s EXCEPT !.tables = @ \cup {keys[k]},
                                       !.tableFrames = Append(@, a.frame)],
                           keys, k + 1)

\* Mapper::map_to: FrameAllocationFailed and PageAlreadyMapped both become
\* "Mapping error" at the call sites
MapTo(s, page, frame, flags) ==
    LET t == CreateTables(s, TableKeys(page), 1) IN
    IF ~ElfOk(t) THEN t
    ELSE IF page \in DOMAIN t.map THEN ElfFail(t, "Mapping error")
    ELSE [t EXCEPT !.map = (page :> [frame |-> frame, flags |-> flags]) @@ t.map,
                   !.mapped = Append(@, page)]

\* Mapper::unmap: PageNotMapped becomes "Mapping error" at the call sites
Unmap(s, page) ==
    LET t == [s EXCEPT !.tried = Append(@, page)] IN
    IF (\E k \in 1..3 : TableKeys(page)[k] \notin s.tables)
       \/ page \notin DOMAIN s.map
    THEN [s |-> ElfFail(t, "Mapping error"), frame |-> NoFrame]
    ELSE [s |-> [t EXCEPT !.map = [p \in (DOMAIN s.map) \ {page} |-> s.map[p]]],
          frame |-> s.map[page].frame]

\* Translate::translate_addr
TranslateAddr(map, addr) ==
    IF PageOf(addr) \in DOMAIN map
    THEN map[PageOf(addr)].frame + (addr % PageSize)
    ELSE NoFrame

\* The physical address a pointer reaches under the page table that is
\* active while the loader runs.  In the boot stub (user = FALSE) that is the
\* firmware's table, which maps every address to itself.  In the kernel
\* (user = TRUE) it is the table being edited: slot 1 is the window onto
\* physical memory, slot 0 holds only what has been mapped into it.
Resolve(s, user, ptr, write) ==
    IF ~user THEN (IF ptr.slot = 0 THEN ptr.off ELSE Fault)
    ELSE IF ptr.slot = 1 THEN ptr.off
    ELSE IF /\ PageOf(ptr.off) \in DOMAIN s.map
            /\ (write => "WRITABLE" \in s.map[PageOf(ptr.off)].flags)
         THEN s.map[PageOf(ptr.off)].frame + (ptr.off % PageSize)
         ELSE Fault

Bare(addr) == [slot |-> 0, off |-> addr]

Store(s, phys, len, val) ==
    [s EXCEPT !.writes = Append(@, [phys |-> phys, len |-> len, val |-> val])]

\* the loader dereferences `ptr` (to read or to write): kept in mmu.derefs
Deref(s, ptr, kind) ==
    [s EXCEPT !.derefs = Append(@, [ptr |-> ptr, kind |-> kind])]

\* ptr::copy_nonoverlapping(src, dst, count); a page fault panics
CopyNonoverlapping(s, user, src, dst, count) ==
    LET from == Resolve(s, user, src, FALSE)
        to == Resolve(s, user, dst, TRUE)
        d == Deref(Deref(s, src, "copy from"), dst, "copy to")
    IN IF from = Fault \/ to = Fault THEN ElfFail(d, "panic")
       ELSE Store(d, to, count, [k |-> "copy", off |-> from])

\* ptr::write_bytes(dst, 0, count)
WriteBytes(s, user, dst, count) ==
    LET to == Resolve(s, user, dst, TRUE)
        d == Deref(s, dst, "zero")
    IN IF to = Fault THEN ElfFail(d, "panic")
       ELSE Store(d, to, count, [k |-> "zero", off |-> 0])

\* ptr.write(value) of a u64
WriteU64(s, user, dst, value) ==
    LET to == Resolve(s, user, dst, TRUE)
        d == Deref(s, dst, "reloc")
    IN IF to = Fault THEN ElfFail(d, "panic")
       ELSE Store(d, to, 8, [k |-> "reloc", off |-> value])

\* the byte at physical address p after the first k stores of the log
RECURSIVE ByteFrom(_, _, _)
ByteFrom(s, p, k) ==
    IF k = 0
    THEN IF InImage(p) THEN [k |-> "file", off |-> p - ImagePhys]
                       ELSE [k |-> "stale", off |-> 0]
    ELSE LET w == s.writes[k] IN
         IF w.phys <= p /\ p < w.phys + w.len
         THEN IF w.val.k = "copy"
              THEN ByteFrom(s, w.val.off + (p - w.phys), k - 1)
              ELSE w.val
         ELSE ByteFrom(s, p, k - 1)

ByteAt(s, p) == ByteFrom(s, p, Len(s.writes))

\* the page table flags load_segment computes for a program header
SegmentFlags(e, h) ==
    {"PRESENT"}
      \cup (IF e.user THEN {"USER_ACCESSIBLE"} ELSE {})
      \cup (IF h.write THEN {"WRITABLE"} ELSE {})
      \cup (IF ~h.execute THEN {"NO_EXECUTE"} ELSE {})

\* load_segment, first fresh frame: copy the file bytes of the last ELF frame
\* to the same offset of the fresh frame.  PhysAddr - PhysAddr is checked.
CopyTail(s, c, frame) ==
    LET phys_start == Max(c.phys_start, c.frame_end)
        offset == phys_start - AlignDown(phys_start, PageSize)
    IN IF c.phys_end < phys_start
       THEN [s |-> ElfFail(s, "panic"), zero_start |-> 0]
       ELSE LET count == c.phys_end - phys_start + 1 IN
            [s |-> CopyNonoverlapping(s, c.user, Bare(phys_start),
                                      Bare(frame + offset), count),
             zero_start |-> offset + count]

\* load_segment, the loop over new_range: a fresh frame for every page from
\* the one holding the last file byte to the last page of the segment
RECURSIVE LoadFresh(_, _, _, _)
LoadFresh(s, c, page, i) ==
    IF ~ElfOk(s) \/ page > c.old_end THEN s
    ELSE LET a == ElfAllocateFrame(s) IN
         IF a.frame = NoFrame THEN ElfFail(a.s, "No frame allocated")
         ELSE
         LET taken == [a.s EXCEPT !.fresh = Append(@, a.frame)]
             m == MapTo(taken, page, a.frame, c.flags)
         IN IF ~ElfOk(m) THEN m
            ELSE
            LET filled == IF i = 0 THEN CopyTail(m, c, a.frame)
                                   ELSE [s |-> m, zero_start |-> 0]
            IN IF ~ElfOk(filled.s) THEN filled.s
               ELSE LoadFresh(WriteBytes(filled.s, c.user,
                                         Bare(a.frame + filled.zero_start),
                                         PageSize - filled.zero_start),
                              c, page + PageSize, i + 1)

\* load_segment, the loop over page_range.zip(frame_range)
RECURSIVE LoadDirect(_, _, _, _, _, _)
LoadDirect(s, flags, page, page_end, frame, frame_end) ==
    IF ~ElfOk(s) \/ page > page_end \/ frame > frame_end THEN s
    ELSE LoadDirect(MapTo(s, page, frame, flags), flags,
                    page + PageSize, page_end, frame + PageSize, frame_end)

LoadSegment(s, e, h) ==
    LET virt_len == h.mem_size
        phys_len == h.file_size
        virt_start == h.virtual_addr + ElfOffset(e)
        virt_end == virt_start + virt_len - 1
        elf_virt == s.input + h.offset
        phys_start == IF e.user THEN TranslateAddr(s.map, elf_virt) ELSE elf_virt
        phys_end == phys_start + phys_len - 1
        new_start == PageOf(virt_start + phys_len - 1)
        c == [user |-> e.user, flags |-> SegmentFlags(e, h),
              phys_start |-> phys_start, phys_end |-> phys_end,
              frame_end |-> PageOf(phys_end), old_end |-> PageOf(virt_end)]
    IN IF virt_len = 0 THEN s
       ELSE IF phys_start = NoFrame THEN ElfFail(s, "Elf not mapped")
       ELSE IF phys_end < 0 THEN ElfFail(s, "panic")
       ELSE IF virt_len > phys_len
       THEN IF virt_start + phys_len - 1 < 0 \/ new_start - PageSize < 0
            THEN ElfFail(s, "panic")
            ELSE LoadDirect(LoadFresh(s, c, new_start, 0), c.flags,
                            PageOf(virt_start), new_start - PageSize,
                            PageOf(phys_start), c.frame_end)
       ELSE LoadDirect(s, c.flags, PageOf(virt_start), PageOf(virt_end),
                       PageOf(phys_start), c.frame_end)

\* mutant: the relocation is written through the bare physical address
RECURSIVE RelocateBare(_, _, _, _)
RelocateBare(s, e, list, k) ==
    IF ~ElfOk(s) \/ k > Len(list) THEN s
    ELSE IF list[k].type = 8
    THEN LET virt_base == ElfOffset(e) + list[k].offset
             phys == TranslateAddr(s.map, virt_base)
             value == ElfOffset(e) + list[k].addend
         IN IF phys = NoFrame THEN ElfFail(s, "Relocation not mapped")
            ELSE RelocateBare(WriteU64(s, e.user, Bare(phys), value), e, list,
                              k + 1)
    ELSE ElfFail(s, "Unimplemented relocation type encountered")

\* relocate: R_X86_64_RELATIVE (type 8) entries of one Rela section
RECURSIVE Relocate(_, _, _, _)
Relocate(s, e, list, k) ==
    IF ~ElfOk(s) \/ k > Len(list) THEN s
    ELSE IF list[k].type = 8
    THEN LET virt_base == ElfOffset(e) + list[k].offset
             phys == TranslateAddr(s.map, virt_base)
             ptr == [slot |-> IF e.user THEN 1 ELSE 0, off |-> phys]
             value == ElfOffset(e) + list[k].addend
         IN IF phys = NoFrame THEN ElfFail(s, "Relocation not mapped")
            ELSE Relocate(WriteU64(s, e.user, ptr, value), e, list, k + 1)
    ELSE ElfFail(s, "Unimplemented relocation type encountered")

\* setup_mappings, first loop: the program headers
RECURSIVE LoadSegments(_, _, _)
LoadSegments(s, e, k) ==
    IF ~ElfOk(s) \/ k > Len(e.headers) THEN s
    ELSE IF e.headers[k].type = "Load"
    THEN LoadSegments(LoadSegment(s, e, e.headers[k]), e, k + 1)
    ELSE LoadSegments(s, e, k + 1)

\* setup_mappings, second loop: the section headers
RECURSIVE RelocateSections(_, _, _)
RelocateSections(s, e, k) ==
    IF ~ElfOk(s) \/ k > Len(e.sections) THEN s
    ELSE IF e.sections[k].data = "Rela64"
    THEN RelocateSections(Relocate(s, e, e.sections[k].list, 1), e, k + 1)
    ELSE RelocateSections(s, e, k + 1)

SetupMappings(s, e) == RelocateSections(LoadSegments(s, e, 1), e, 1)

\* mutant: the loop over new_range deallocates the frame of a page and
\* leaves the page mapped
RECURSIVE UnloadFreshKeep(_, _, _)
UnloadFreshKeep(s, page, old_end) ==
    IF ~ElfOk(s) \/ page > old_end THEN s
    ELSE LET u == Unmap(s, page) IN
         IF ~ElfOk(u.s) THEN u.s
         ELSE UnloadFreshKeep([s EXCEPT !.freed = Append(@, u.frame)],
                              page + PageSize, old_end)

\* unload_segment, the loop over new_range: unmap and deallocate
RECURSIVE UnloadFresh(_, _, _)
UnloadFresh(s, page, old_end) ==
    IF ~ElfOk(s) \/ page > old_end THEN s
    ELSE LET u == Unmap(s, page) IN
         IF ~ElfOk(u.s) THEN u.s
         ELSE UnloadFresh([u.s EXCEPT !.freed = Append(@, u.frame)],
                          page + PageSize, old_end)

\* mutant: the loop over page_range hands the frame to the deallocator too
RECURSIVE UnloadDirectFree(_, _, _)
UnloadDirectFree(s, page, page_end) ==
    IF ~ElfOk(s) \/ page > page_end THEN s
    ELSE LET u == Unmap(s, page) IN
         IF ~ElfOk(u.s) THEN u.s
         ELSE UnloadDirectFree([u.s EXCEPT !.freed = Append(@, u.frame)],
                               page + PageSize, page_end)

\* unload_segment, the loop over page_range: unmap only
RECURSIVE UnloadDirect(_, _, _)
UnloadDirect(s, page, page_end) ==
    IF ~ElfOk(s) \/ page > page_end THEN s
    ELSE UnloadDirect(Unmap(s, page).s, page + PageSize, page_end)

\* unload_segment with the split one byte late: new_start is taken from the
\* first byte after the file bytes instead of the last file byte
UnloadSegmentSplitLate(s, e, h) ==
    LET virt_start == h.virtual_addr + ElfOffset(e)
        virt_end == virt_start + h.mem_size - 1
        new_start == PageOf(virt_start + h.file_size)
    IN IF h.mem_size = 0 THEN s
       ELSE IF h.mem_size > h.file_size
       THEN UnloadDirect(UnloadFresh(s, new_start, PageOf(virt_end)),
                         PageOf(virt_start), new_start - PageSize)
       ELSE UnloadDirect(s, PageOf(virt_start), PageOf(virt_end))

UnloadSegment(s, e, h) ==
    LET virt_len == h.mem_size
        phys_len == h.file_size
        virt_start == h.virtual_addr + ElfOffset(e)
        virt_end == virt_start + virt_len - 1
        new_start == PageOf(virt_start + phys_len - 1)
    IN IF virt_len = 0 THEN s
       ELSE IF virt_len > phys_len
       THEN IF virt_start + phys_len - 1 < 0 \/ new_start - PageSize < 0
            THEN ElfFail(s, "panic")
            ELSE UnloadDirect(UnloadFresh(s, new_start, PageOf(virt_end)),
                              PageOf(virt_start), new_start - PageSize)
       ELSE UnloadDirect(s, PageOf(virt_start), PageOf(virt_end))

\* remove_mappings: the loop over the program headers
RECURSIVE RemoveMappings(_, _, _)
RemoveMappings(s, e, k) ==
    IF ~ElfOk(s) \/ k > Len(e.headers) THEN s
    ELSE IF e.headers[k].type = "Load"
    THEN RemoveMappings(UnloadSegment(s, e, e.headers[k]), e, k + 1)
    ELSE RemoveMappings(s, e, k + 1)

\* longest program header table of an ELF the model loads
MaxHeaders == 2

\* Shapes of a PT_LOAD segment: where it starts inside its first page, how
\* many bytes the file holds and how many bytes it occupies in memory.
SegmentShapes ==
    { [delta |-> 0,    file_size |-> 4096,  mem_size |-> 4096,  write |-> FALSE],
      [delta |-> 0,    file_size |-> 6144,  mem_size |-> 6144,  write |-> FALSE],
      [delta |-> 0,    file_size |-> 10240, mem_size |-> 10240, write |-> TRUE],
      [delta |-> 0,    file_size |-> 4096,  mem_size |-> 8192,  write |-> TRUE],
      [delta |-> 0,    file_size |-> 6144,  mem_size |-> 8192,  write |-> TRUE],
      [delta |-> 2048, file_size |-> 1024,  mem_size |-> 4096,  write |-> TRUE],
      [delta |-> 0,    file_size |-> 0,     mem_size |-> 4096,  write |-> TRUE],
      [delta |-> 0,    file_size |-> 2048,  mem_size |-> 0,     write |-> FALSE] }

\* The k-th program header of the table starts two pages after the previous
\* one; p_offset = p_vaddr, so both are congruent modulo the page size as
\* the ELF format requires of a loadable segment.
SlotBase(k) == (2 * k - 1) * PageSize

LoadHeader(k, shape) ==
    [type |-> "Load",
     offset |-> SlotBase(k) + shape.delta,
     virtual_addr |-> SlotBase(k) + shape.delta,
     file_size |-> shape.file_size,
     mem_size |-> shape.mem_size,
     write |-> shape.write,
     execute |-> ~shape.write]

OtherHeader ==
    [type |-> "Dynamic", offset |-> 0, virtual_addr |-> 0, file_size |-> 0,
     mem_size |-> 0, write |-> FALSE, execute |-> FALSE]

HeadersAt(k) == {LoadHeader(k, shape) : shape \in SegmentShapes} \cup {OtherHeader}

HeaderTables ==
    UNION { {t \in [1..n -> UNION {HeadersAt(k) : k \in 1..n}] :
                \A k \in 1..n : t[k] \in HeadersAt(k)} : n \in 1..MaxHeaders }

RelaRelative == [type |-> 8, offset |-> 4096 + 16, addend |-> 64]
RelaOther == [type |-> 7, offset |-> 4096 + 32, addend |-> 0]
RelaLate == [type |-> 8, offset |-> 4096 + 48, addend |-> 128]

SectionTables ==
    { <<>>,
      <<[data |-> "Rela64", list |-> <<RelaRelative>>]>>,
      <<[data |-> "Rel64", list |-> <<>>],
        [data |-> "Rela64", list |-> <<RelaRelative, RelaOther>>]>>,
      <<[data |-> "Rela64", list |-> <<RelaRelative>>],
        [data |-> "Rela64", list |-> <<RelaOther, RelaLate>>]>> }

ElfInfos ==
    [pie : BOOLEAN, user : BOOLEAN, headers : HeaderTables, sections : SectionTables]

\* number of frames the frame allocator can still hand out
PoolSizes == {4, 10}

Pool(n) == [i \in 1..n |-> PoolBase + (i - 1) * PageSize]

KernelImagePages == {KernelImageVirt + k * PageSize : k \in 0..(ImagePages - 1)}

\* kernel pages whose virtual address equals the physical address of a frame
\* the loader touches (a frame of the image or of the allocator)
AliasPages(n) ==
    {ImagePhys + k * PageSize : k \in 0..(ImagePages - 1)}
      \cup {PoolBase + k * PageSize : k \in 0..(n - 1)}

\* The page table the loader starts from.  The boot stub passes the fresh,
\* empty kernel table; the kernel passes its own table, in which the image
\* is mapped read-only and, when `alias`, kernel data pages happen to sit at
\* the virtual addresses numerically equal to the frames the loader touches.
BootMap(user, alias, n) ==
    LET pages == IF ~user THEN {}
                 ELSE KernelImagePages \cup (IF alias THEN AliasPages(n) ELSE {})
    IN [p \in pages |->
          IF p \in KernelImagePages
          THEN [frame |-> ImagePhys + (p - KernelImageVirt),
                flags |-> {"PRESENT", "NO_EXECUTE"}]
          ELSE [frame |-> p + AliasShift,
                flags |-> {"PRESENT", "WRITABLE", "NO_EXECUTE"}]]

BootTables(map) ==
    IF DOMAIN map = {} THEN {}
    ELSE UNION {{TableKeys(p)[k] : k \in 1..3} : p \in DOMAIN map}

MmuNew(user, alias, n) ==
    [map |-> BootMap(user, alias, n),
     boot |-> BootMap(user, alias, n),
     tables |-> BootTables(BootMap(user, alias, n)),
     tableFrames |-> <<>>,
     pool |-> Pool(n),
     input |-> IF user THEN KernelImageVirt ELSE ImagePhys,
     fresh |-> <<>>,
     freed |-> <<>>,
     mapped |-> <<>>,
     tried |-> <<>>,
     writes |-> <<>>,
     derefs |-> <<>>,
     status |-> "ok",
     phase |-> "parsed"]

InitElfVars ==
    /\ elf \in ElfInfos
    /\ \E alias \in BOOLEAN, n \in PoolSizes :
          /\ alias => elf.user
          /\ mmu = MmuNew(elf.user, alias, n)

\* ElfInfo::setup_mappings(map, all)
ElfSetupMappings ==
    /\ mmu.phase = "parsed"
    /\ mmu' = [SetupMappings(mmu, elf) EXCEPT !.phase = "set up"]
    /\ UNCHANGED elf

\* ElfInfo::remove_mappings(map, all), once setup_mappings has returned Ok
ElfRemoveMappings ==
    /\ mmu.phase = "set up"
    /\ ElfOk(mmu)
    /\ mmu' = [RemoveMappings(mmu, elf, 1) EXCEPT !.phase = "removed"]
    /\ UNCHANGED elf

(***************************************************************************)
(* The kernel's frame traffic: the heap (kernel/src/allocator.rs), the     *)
(* user program's mappings and stack (kernel/src/threads.rs, spawn_user),  *)
(* and their removal (common/src/elf.rs), all through one page table (mmu) *)
(* and one UserFrameAllocator (ufa) on a RegionFrameAllocator (rfa).       *)
(***************************************************************************)

\* allocator.rs: HEAP_START = 0o1_000_000_0000
HeapStart == 1073741824
\* pages of the heap: HEAP_SIZE / 4096 is 512 in the source and is scaled
\* down here; every page of the heap is treated alike by init
HeapPages == 2
HeapSize == HeapPages * PageSize

\* spawn_user: stack_start = 0x2000, stack_length = 1
StackStart == 8192
StackLength == 1
\* stack_start + stack_length * 0x1000
StackEnd == StackStart + StackLength * PageSize

\* calls of setup_mappings the model follows
MaxSetups == 2

\* frames of conventional memory the firmware reports, from PoolBase on
KernelFrames == 12

KernelMemoryMaps ==
    { <<[ty |-> "RESERVED", phys_start |-> 0, page_count |-> 4],
        [ty |-> "CONVENTIONAL", phys_start |-> PoolBase,
         page_count |-> KernelFrames]>>,
      <<[ty |-> "CONVENTIONAL", phys_start |-> PoolBase, page_count |-> 5],
        [ty |-> "RESERVED", phys_start |-> PoolBase + 5 * PageSize,
         page_count |-> 1],
        [ty |-> "CONVENTIONAL", phys_start |-> PoolBase + 6 * PageSize,
         page_count |-> KernelFrames - 6]>>,
      <<[ty |-> "CONVENTIONAL", phys_start |-> PoolBase + 2048, page_count |-> 7]>> }

\* USER.info(true): the embedded user program
KernelElfs == {e \in ElfInfos : e.user}

KernNew == [phase |-> "boot", heap |-> <<>>, stack |-> <<>>, setups |-> 0]

\* The frames init.frame_allocator hands out from now on, in order, as long
\* as nothing is deallocated: the pool first, then the backing allocator.
\* A call that takes `&mut init.frame_allocator` either only allocates
\* (allocator::init, setup_mappings, map_to) or only deallocates
\* (remove_mappings), so it sees the allocator as this supply of frames.
RECURSIVE FrameStream(_, _, _)
FrameStream(u, backing, m) ==
    LET r == UserAllocateFrame(u, backing, m) IN
    IF ~r.some THEN <<>>
    ELSE <<r.ret>> \o FrameStream(r.u, r.backing, m)

\* the allocator after k calls of allocate_frame that returned a frame
RECURSIVE Allocated(_, _, _, _)
Allocated(u, backing, m, k) ==
    IF k = 0 THEN [u |-> u, backing |-> backing]
    ELSE LET r == UserAllocateFrame(u, backing, m) IN
         Allocated(r.u, r.backing, m, k - 1)

\* the allocator after deallocate_frame of the frames of `freed` from
\* position k on
RECURSIVE Deallocated(_, _, _)
Deallocated(u, freed, k) ==
    IF k > Len(freed) THEN u
    ELSE Deallocated(UserDeallocateFrame(u, freed[k]), freed, k + 1)

\* the page table with init.frame_allocator handed to the callee
Wired(s, u, backing, m) == [s EXCEPT !.pool = FrameStream(u, backing, m)]

\* the page table once the callee has returned
Unwired(s) == [s EXCEPT !.pool = <<>>]

\* allocator::init, the body of the loop: the unwrap of allocate_frame
\* panics, an error of map_to is returned
HeapInitPage(s, page, heap) ==
    LET a == ElfAllocateFrame(s) IN
    IF a.frame = NoFrame
    THEN [s |-> ElfFail(a.s, "panic"), heap |-> heap]
    ELSE [s |-> MapTo(a.s, page, a.frame, {"PRESENT", "WRITABLE"}),
          heap |-> Append(heap, a.frame)]

\* the loop over the pages page..last in ascending order, stopping at the
\* first failure; the pages are walked half by half to keep the nesting
\* of the evaluation shallow
RECURSIVE HeapInitRange(_, _, _, _)
HeapInitRange(s, page, last, heap) ==
    IF ~ElfOk(s) \/ page > last THEN [s |-> s, heap |-> heap]
    ELSE IF page = last THEN HeapInitPage(s, page, heap)
    ELSE LET mid == PageOf(page + (last - page) \div 2)
             lower == HeapInitRange(s, page, mid, heap)
         IN HeapInitRange(lower.s, mid + PageSize, last, lower.heap)

\* mutant: the loop leaves out the last page of the range
HeapInitExclusive(s, page, last, heap) ==
    HeapInitRange(s, page, last - PageSize, heap)

\* allocator::init, the loop over Page::range_inclusive(page, last)
HeapInitTo(s, page, last, heap) == HeapInitRange(s, page, last, heap)

\* allocator::init on the heap of HeapPages pages
HeapInit(s, page, heap) ==
    HeapInitTo(s, page, PageOf(HeapStart + (HeapSize - 1)), heap)

\* spawn_user, the loop over the pages of the stack; both unwraps panic
RECURSIVE StackInit(_, _, _)
StackInit(s, i, stack) ==
    IF ~ElfOk(s) \/ i >= StackLength THEN [s |-> s, stack |-> stack]
    ELSE LET a == ElfAllocateFrame(s) IN
         IF a.frame = NoFrame
         THEN [s |-> ElfFail(a.s, "panic"), stack |-> stack]
         ELSE LET m == MapTo(a.s, PageOf(StackStart) + i * PageSize, a.frame,
                             {"PRESENT", "WRITABLE", "USER_ACCESSIBLE"})
              IN IF ~ElfOk(m)
                 THEN [s |-> [m EXCEPT !.status = "panic"], stack |-> stack]
                 ELSE StackInit(m, i + 1, Append(stack, a.frame))

InitKernelVars ==
    /\ memory_map \in KernelMemoryMaps
    /\ rfa = RegionNew(memory_map)
    /\ rfaHist = [returned |-> <<>>, calls |-> 0, lastSome |-> FALSE]
    /\ ufa = UserNew
    /\ ufaHist = UserHistNew
    /\ elf \in KernelElfs
    /\ \E alias \in BOOLEAN :
          mmu = [MmuNew(TRUE, alias, KernelFrames) EXCEPT !.pool = <<>>]
    /\ kern = KernNew

\* what a call leaves behind in the page table and the two allocators:
\* the frames it took are gone from the allocator, the frames it
\* deallocated are in the pool
Returned(s) ==
    LET taken == Len(FrameStream(ufa, rfa, memory_map)) - Len(s.pool)
        after == Allocated(ufa, rfa, memory_map, taken)
    IN /\ mmu' = Unwired(s)
       /\ ufa' = Deallocated(after.u, s.freed, Len(mmu.freed) + 1)
       /\ rfa' = after.backing
       /\ UNCHANGED <<memory_map, rfaHist, ufaHist, elf>>

\* allocator::init(mapper, allocator), called once by the kernel's init
KernHeapInit ==
    /\ kern.phase = "boot"
    /\ ElfOk(mmu)
    /\ LET r == HeapInit(Wired(mmu, ufa, rfa, memory_map), PageOf(HeapStart), <<>>)
       IN /\ Returned(r.s)
          /\ kern' = [kern EXCEPT !.phase = "up", !.heap = r.heap]

\* elf.setup_mappings(&mut init.page_table, &mut init.frame_allocator).unwrap()
KernSetupMappings ==
    /\ kern.phase = "up"
    /\ ElfOk(mmu)
    /\ mmu.phase \in {"parsed", "removed"}
    /\ kern.setups < MaxSetups
    /\ LET s == SetupMappings(Wired(mmu, ufa, rfa, memory_map), elf)
       IN /\ Returned([s EXCEPT !.phase = "set up"])
          /\ kern' = [kern EXCEPT !.setups = @ + 1]

\* spawn_user, the stack of the user program
KernStackInit ==
    /\ kern.phase = "up"
    /\ ElfOk(mmu)
    /\ kern.stack = <<>>
    /\ LET r == StackInit(Wired(mmu, ufa, rfa, memory_map), 0, <<>>)
       IN /\ Returned(r.s)
          /\ kern' = [kern EXCEPT !.stack = r.stack]

\* elf.remove_mappings(&mut init.page_table, &mut init.frame_allocator)
KernRemoveMappings ==
    /\ kern.phase = "up"
    /\ ElfOk(mmu)
    /\ mmu.phase = "set up"
    /\ LET s == RemoveMappings(Wired(mmu, ufa, rfa, memory_map), elf, 1)
       IN /\ Returned([s EXCEPT !.phase = "removed"])
          /\ UNCHANGED kern

(***************************************************************************)
(* The heap at its full size (kernel/src/allocator.rs): allocator::init    *)
(* maps the pages of HEAP_START..HEAP_START + HEAP_SIZE and initialises    *)
(* the global bump allocator ALLOC (bump) on the same range.               *)
(***************************************************************************)

\* the value of an octal literal, most significant digit first
RECURSIVE OctalValue(_)
OctalValue(digits) ==
    IF digits = <<>> THEN 0
    ELSE 8 * OctalValue(SubSeq(digits, 1, Len(digits) - 1)) + digits[Len(digits)]

\* allocator.rs: HEAP_START = 0o1_000_000_0000, HEAP_SIZE = 0o1_000_0000
HEAP_START == OctalValue(<<1, 0, 0, 0, 0, 0, 0, 0, 0, 0, 0>>)
HEAP_SIZE == OctalValue(<<1, 0, 0, 0, 0, 0, 0, 0>>)

\* frames the frame allocator can hand out when allocator::init is called:
\* enough for the heap and its page tables, or too few
HeapPoolSizes == {HEAP_SIZE \div PageSize + 4, HEAP_SIZE \div PageSize - 12}

InitHeapVars ==
    /\ elf = [pie |-> FALSE, user |-> FALSE, headers |-> <<>>, sections |-> <<>>]
    /\ \E n \in HeapPoolSizes : mmu = MmuNew(TRUE, FALSE, n)
    /\ kern = KernNew
    /\ bump = BumpNew
    /\ bumpHist = BumpHistNew

\* allocator::init(mapper, allocator): the loop, then ALLOC.init
AllocatorInit ==
    /\ kern.phase = "boot"
    /\ ElfOk(mmu)
    /\ LET r == HeapInitTo(mmu, PageOf(HEAP_START),
                           PageOf(HEAP_START + (HEAP_SIZE - 1)), <<>>)
       IN /\ mmu' = r.s
          /\ IF ElfOk(r.s)
             THEN /\ bump' = BumpInitFields(bump, HEAP_START, HEAP_SIZE)
                  /\ kern' = [kern EXCEPT !.phase = "up", !.heap = r.heap]
             ELSE /\ bump' = bump
                  /\ kern' = [kern EXCEPT !.heap = r.heap]
    /\ UNCHANGED <<bumpHist, elf>>

(***************************************************************************)
(* The user program and the syscall dispatch loop (kernel/src/threads.rs:  *)
(* spawn_user, syscall_loop).  A user program is the sequence of syscalls  *)
(* it issues; a program that has issued them all and has not exited keeps  *)
(* running in user mode.  The buffers the program passes lie in its stack  *)
(* page.  One step of the loop runs from the return of `syscall` in the    *)
(* kernel to the next `sysretq`.                                           *)
(***************************************************************************)

\* syscalls a user program issues before it exits or spins
MaxSyscalls == 3

\* threads.rs: the frame buffer is mapped for the user from 0x7000000 on
UserFbBase == 117440512
\* physical address of the firmware's frame buffer
FbPhys == 268435456

\* sys::SyscallCode
ExitCode == 0
LogCode == 1
FrameBufferCode == 2

Continuation(b) == 128 <= b /\ b <= 191

\* length of the UTF-8 sequence a byte starts; 0 when it starts none
Utf8CharWidth(b) ==
    IF b < 128 THEN 1
    ELSE IF 194 <= b /\ b <= 223 THEN 2
    ELSE IF 224 <= b /\ b <= 239 THEN 3
    ELSE IF 240 <= b /\ b <= 244 THEN 4
    ELSE 0

\* str::from_utf8(s).is_ok()
RECURSIVE Utf8Valid(_)
Utf8Valid(bs) ==
    IF bs = <<>> THEN TRUE
    ELSE LET w == Utf8CharWidth(bs[1]) IN
         IF w = 0 \/ Len(bs) < w THEN FALSE
         ELSE /\ w = 2 => Continuation(bs[2])
              /\ w = 3 =>
                    /\ \/ bs[1] = 224 /\ 160 <= bs[2] /\ bs[2] <= 191
                       \/ 225 <= bs[1] /\ bs[1] <= 236 /\ Continuation(bs[2])
                       \/ bs[1] = 237 /\ 128 <= bs[2] /\ bs[2] <= 159
                       \/ 238 <= bs[1] /\ bs[1] <= 239 /\ Continuation(bs[2])
                    /\ Continuation(bs[3])
              /\ w = 4 =>
                    /\ \/ bs[1] = 240 /\ 144 <= bs[2] /\ bs[2] <= 191
                       \/ 241 <= bs[1] /\ bs[1] <= 243 /\ Continuation(bs[2])
                       \/ bs[1] = 244 /\ 128 <= bs[2] /\ bs[2] <= 143
                    /\ Continuation(bs[3])
                    /\ Continuation(bs[4])
              /\ Utf8Valid(SubSeq(bs, w + 1, Len(bs)))

\* buffers a program passes to Log: "Hi", "é", and a stray 0xFF after "H"
LogBuffers == { <<72, 105>>, <<195, 169>>, <<72, 255>> }

\* os::log, os::frame_buffer, an unknown code; rsi points into the stack page
LogCall(bytes) ==
    [code |-> LogCode, rsi |-> StackStart + 16, rdx |-> Len(bytes), bytes |-> bytes]
FrameBufferCall ==
    [code |-> FrameBufferCode, rsi |-> StackStart + 256, rdx |-> 48, bytes |-> <<>>]
UnknownCall(code) == [code |-> code, rsi |-> 0, rdx |-> 0, bytes |-> <<>>]
ExitCall(code) == [code |-> ExitCode, rsi |-> code, rdx |-> 0, bytes |-> <<>>]

Calls ==
    {LogCall(bytes) : bytes \in LogBuffers}
      \cup {FrameBufferCall, UnknownCall(3)}

\* the programs: up to MaxSyscalls calls, then exit(7) or an endless loop
Programs ==
    UNION { {p \o tail : p \in [1..n -> Calls], tail \in {<<>>, <<ExitCall(7)>>}} :
              n \in 0..MaxSyscalls }
      \cup {<<ExitCall(0)>>}

\* init.boot_info.fb: none, or the firmware's frame buffer
NoFb == [some |-> FALSE, phys |-> 0, size |-> 0, format |-> "BltOnly",
         shape |-> <<0, 0>>, stride |-> 0]

FrameBuffers ==
    { NoFb,
      [some |-> TRUE, phys |-> FbPhys, size |-> 2 * PageSize, format |-> "Rgb",
       shape |-> <<64, 32>>, stride |-> 64],
      [some |-> TRUE, phys |-> FbPhys + 2048, size |-> PageSize, format |-> "Bgr",
       shape |-> <<32, 32>>, stride |-> 32],
      [some |-> TRUE, phys |-> FbPhys, size |-> PageSize, format |-> "Bitmask",
       shape |-> <<32, 32>>, stride |-> 32] }

\* what the loop and its observer see before a syscall is handled
Snapshot(call, s, u, backing, k, y) ==
    [call |-> call, map |-> s.map, tables |-> s.tables, user |-> u,
     backing |-> backing, kern |-> k, log |-> y.log, written |-> y.written,
     sysrets |-> y.sysrets, rax |-> y.rax]

\* RIP (the index of a call in the program) and RSP of the user program
NoRegs == [rip |-> 0, rsp |-> 0]

\* the kernel before spawn_user: interrupts are enabled (interrupts::init);
\* rip, rsp and rax are the locals of syscall_loop, user the registers the
\* program runs with, at its registers when it executed SYSCALL last,
\* prologue the stack bytes the prologue of syscall_handler takes
SysNew(program, fb) ==
    [mode |-> "kernel", program |-> program, pc |-> 1, fb |-> fb,
     rax |-> 0, sysrets |-> 0, returns |-> 0, iflag |-> TRUE, enables |-> 0,
     lstar |-> FALSE, log |-> <<>>, written |-> <<>>, where |-> "",
     handled |-> 0, rip |-> 0, rsp |-> 0, user |-> NoRegs, at |-> NoRegs,
     prologue |-> 8]

\* a line of the kernel log; arg holds the formatted arguments
LogLine(level, text, arg) == [level |-> level, text |-> text, arg |-> arg]

\* a panic of the kernel: nothing runs afterwards
SysPanic(y, where) == [y EXCEPT !.mode = "panicked", !.where = where]

\* sysretq: the user program runs with rax as the result of its syscall,
\* at rcx = rip and with rsp; r11 = 0x0202 sets the interrupt flag
SysRet(y) ==
    [y EXCEPT !.mode = "user", !.sysrets = @ + 1, !.iflag = TRUE,
              !.user = [rip |-> y.rip, rsp |-> y.rsp]]

\* the bytes the compiled prologue of syscall_handler (an extern "C" fn
\* that is not naked) takes from the stack before its asm block runs: one
\* slot, or none when the function is compiled as a leaf without a frame
PrologueBytes == {0, 8}

\* SYSCALL and syscall_handler: rcx holds the address of the instruction
\* after the SYSCALL and rsp is still the user's; the prologue runs, `pop
\* rax` takes one slot back, rax takes rsp, and the asm block of
\* syscall_loop hands rcx and rax to rip and rsp
SyscallHandler(y, u) ==
    [y EXCEPT !.at = [rip |-> y.user.rip, rsp |-> u],
              !.rip = y.user.rip + 1,
              !.rsp = (u - y.prologue) + 8]

\* syscall_loop: rax = 0 ahead of the match
ResetRax(y) == [y EXCEPT !.rax = 0]

\* spawn_user up to the first sysretq: the mappings of the ELF, the stack,
\* LSTAR, and the switch to user mode with rax = 0
SpawnUserEnter(s, e, y) ==
    LET r == StackInit(SetupMappings(s, e), 0, <<>>) IN
    [s |-> [r.s EXCEPT !.phase = "set up"],
     stack |-> r.stack,
     y |-> IF ElfOk(r.s)
           THEN SysRet([y EXCEPT !.lstar = TRUE, !.rax = 0,
                          !.rip = 1, !.rsp = StackEnd,
                          !.log = Append(@, LogLine("info", "Switching to userspace", <<>>))])
           ELSE SysPanic(y, "spawn_user")]

\* mutant: Exit is logged and the user program is resumed
ExitArmResume(y, call) ==
    SysRet([y EXCEPT !.log = Append(@, LogLine("info", "User exited with code",
                                               <<call.rsi>>))])

\* syscall_loop, the Exit arm, and the rest of spawn_user
ExitArm(y, call) ==
    [y EXCEPT !.log = @ \o <<LogLine("info", "User exited with code", <<call.rsi>>),
                              LogLine("info", "Back in kernelspace", <<>>)>>,
              !.mode = "returned",
              !.returns = @ + 1,
              !.iflag = TRUE,
              !.enables = @ + 1]

\* mutant: the buffer is logged whether or not it is valid UTF-8
LogArmLossy(s, y, call) ==
    SysRet([y EXCEPT !.rax = IF Utf8Valid(call.bytes) THEN @ ELSE 1,
                     !.log = Append(@, LogLine("info", "User message: ", call.bytes))])

\* syscall_loop, the Log arm: the kernel reads the buffer through the
\* user's pointer
LogArm(s, y, call) ==
    IF call.rdx > 0 /\ Resolve(s, TRUE, Bare(call.rsi), FALSE) = Fault
    THEN SysPanic(y, "page fault")
    ELSE IF Utf8Valid(call.bytes)
    THEN SysRet([y EXCEPT !.log = Append(@, LogLine("info", "User message: ", call.bytes))])
    ELSE SysRet([y EXCEPT !.rax = 1,
                          !.log = Append(@, LogLine("warn", "User message not valid UTF-8", <<>>))])

\* syscall_loop, the FrameBuffer arm: the loop over the frames
RECURSIVE MapFrameBuffer(_, _, _, _)
MapFrameBuffer(s, page, frame, last_frame) ==
    IF ~ElfOk(s) \/ frame > last_frame THEN s
    ELSE MapFrameBuffer(MapTo(s, page, frame,
                              {"PRESENT", "WRITABLE", "USER_ACCESSIBLE"}),
                        page + PageSize, frame + PageSize, last_frame)

\* syscall_loop, the FrameBuffer arm
FrameBufferArm(s, y, call) ==
    IF ~y.fb.some \/ y.fb.format \notin {"Rgb", "Bgr"}
    THEN [s |-> s, y |-> SysRet([y EXCEPT !.rax = 1])]
    ELSE LET start == y.fb.phys
             start_frame == PageOf(start)
             virt_start == UserFbBase + (start - start_frame)
             m == MapFrameBuffer(s, PageOf(virt_start), start_frame,
                                 PageOf(start + (y.fb.size - 1)))
         IN IF ~ElfOk(m)
            THEN [s |-> [m EXCEPT !.status = "panic"], y |-> SysPanic(y, "map_to")]
            ELSE IF Resolve(m, TRUE, Bare(call.rsi), TRUE) = Fault
            THEN [s |-> m, y |-> SysPanic(y, "page fault")]
            ELSE [s |-> m,
                  y |-> SysRet([y EXCEPT
                          !.written = Append(@,
                              [at |-> call.rsi, ptr |-> virt_start,
                               size |-> y.fb.size, shape |-> y.fb.shape,
                               stride |-> y.fb.stride, format |-> y.fb.format])])]

\* mutant: an unknown code is logged and reported as a success
UnknownArmOk(y, call) ==
    SysRet([y EXCEPT !.rax = 0,
                     !.log = Append(@, LogLine("warn", "Ignoring unknown syscall",
                                               <<call.code>>))])

\* syscall_loop, the default arm
UnknownArm(y, call) ==
    SysRet([y EXCEPT !.rax = 1,
                     !.log = Append(@, LogLine("warn", "Ignoring unknown syscall",
                                               <<call.code>>))])

\* memory maps, ELFs and page tables of the runs of a user program
SyscallMemoryMaps == {m \in KernelMemoryMaps : Len(m) # 3}

SyscallElfs ==
    {e \in KernelElfs :
        /\ e.pie
        /\ e.sections = <<>>
        /\ Len(e.headers) = 1
        /\ e.headers[1].type = "Load"
        /\ e.headers[1].offset = SlotBase(1)
        /\ e.headers[1].file_size = PageSize}

InitSyscallVars ==
    /\ memory_map \in SyscallMemoryMaps
    /\ rfa = RegionNew(memory_map)
    /\ rfaHist = [returned |-> <<>>, calls |-> 0, lastSome |-> FALSE]
    /\ ufa = UserNew
    /\ ufaHist = UserHistNew
    /\ elf \in SyscallElfs
    /\ \E alias \in BOOLEAN :
          /\ alias => elf.headers[1].mem_size > elf.headers[1].file_size
          /\ mmu = [MmuNew(TRUE, alias, KernelFrames) EXCEPT !.pool = <<>>]
    /\ kern = KernNew
    /\ \E program \in Programs, fb \in FrameBuffers, p \in PrologueBytes :
          /\ sys = [SysNew(program, fb) EXCEPT !.prologue = p]
          /\ sysLast = Snapshot(UnknownCall(0), mmu, ufa, rfa, kern, sys)

\* the programs that issue one syscall and then exit, or exit at once
ExitingPrograms ==
    {<<ExitCall(0)>>} \cup {<<c, ExitCall(7)>> : c \in Calls}

InitExitVars ==
    /\ InitSyscallVars
    /\ sys.program \in ExitingPrograms \cup {<<>>}

\* spawn_user(init, elf) until the user program runs
SpawnUser ==
    /\ kern.phase = "up"
    /\ ElfOk(mmu)
    /\ sys.mode = "kernel"
    /\ LET r == SpawnUserEnter(Wired(mmu, ufa, rfa, memory_map), elf, sys)
       IN /\ Returned(r.s)
          /\ kern' = [kern EXCEPT !.setups = @ + 1, !.stack = r.stack]
          /\ sys' = r.y
          /\ UNCHANGED sysLast

\* the syscall the user program issues next
NextCall == sys.program[sys.user.rip]

Issues(codes) ==
    /\ sys.mode = "user"
    /\ sys.user.rip <= Len(sys.program)
    /\ NextCall.code \in codes

\* the stack pointers a program issues a SYSCALL with
UserRsps == {StackEnd, StackEnd - 64}

\* a pass of the loop up to the match: the asm block and rax = 0
Entered(y, u) == ResetRax(SyscallHandler(y, u))

\* what every pass of the loop does besides its arm
Handled(y) == [y EXCEPT !.pc = @ + 1, !.handled = @ + 1]

SysExit ==
    /\ Issues({ExitCode})
    /\ \E u \in UserRsps : sys' = Handled(ExitArm(Entered(sys, u), NextCall))
    /\ sysLast' = Snapshot(NextCall, mmu, ufa, rfa, kern, sys)
    /\ UNCHANGED <<memory_map, rfa, rfaHist, ufa, ufaHist, elf, mmu, kern>>

SysLog ==
    /\ Issues({LogCode})
    /\ \E u \in UserRsps : sys' = Handled(LogArm(mmu, Entered(sys, u), NextCall))
    /\ sysLast' = Snapshot(NextCall, mmu, ufa, rfa, kern, sys)
    /\ UNCHANGED <<memory_map, rfa, rfaHist, ufa, ufaHist, elf, mmu, kern>>

SysFrameBuffer ==
    /\ Issues({FrameBufferCode})
    /\ \E u \in UserRsps :
          LET r == FrameBufferArm(Wired(mmu, ufa, rfa, memory_map),
                                  Entered(sys, u), NextCall)
          IN /\ Returned(r.s)
             /\ sys' = Handled(r.y)
    /\ sysLast' = Snapshot(NextCall, mmu, ufa, rfa, kern, sys)
    /\ UNCHANGED kern

SysUnknown ==
    /\ Issues(0..255 \ {ExitCode, LogCode, FrameBufferCode})
    /\ \E u \in UserRsps : sys' = Handled(UnknownArm(Entered(sys, u), NextCall))
    /\ sysLast' = Snapshot(NextCall, mmu, ufa, rfa, kern, sys)
    /\ UNCHANGED <<memory_map, rfa, rfaHist, ufa, ufaHist, elf, mmu, kern>>

(***************************************************************************)
(* The UEFI boot stub (uefi_stub/src/main.rs: setup_boot, efi_main,        *)
(* switch_to_kernel, shutdown) and the MemoryMap it hands to the kernel    *)
(* (common/src/boot.rs).  The firmware is an input: whether it has a       *)
(* graphics output, how many descriptors its final memory map has and how  *)
(* far apart they lie, where it allocates, and which of its services       *)
(* fail.  `trace` lists the firmware services called and the two events    *)
(* that end the stub, in order.                                            *)
(***************************************************************************)

\* descriptors in the final memory map
MaxDescriptors == 4
\* page-table frames one mapping call may take from the firmware
MaxTableFrames == 2

\* mem::size_of::<MemoryDescriptor>()
DescriptorSize == 40
\* distance between two descriptors as the firmware lays them out
EntrySizes == {DescriptorSize, 48}
\* pages of the kernel stack (allocate_pages(16))
StackPages == 16

\* addresses the firmware returns for the allocations of setup_boot
StackBases == {1048576, 3145728}
PageTableAddr == 65536
BootInfoAddr == 524288
MmapAddr == 528384

Firmwares ==
    [gop : BOOLEAN, descriptors : 1..MaxDescriptors, entry_size : EntrySizes,
     stack_base : StackBases]

IdleFirmware ==
    [gop |-> FALSE, descriptors |-> 1, entry_size |-> DescriptorSize,
     stack_base |-> 1048576]

\* services of the UEFI boot-services table the stub uses
BootServices == {"LocateProtocol", "AllocatePages", "AllocatePool", "GetMemoryMap",
                 "ExitBootServices"}

\* a pointer into the window onto physical memory: addr + offset::USIZE
Offset(addr) == [slot |-> 1, off |-> addr]

NoMemoryMap == [ptr |-> Offset(0), size |-> 0, len |-> 0]
NoBootInfo == [written |-> FALSE, uefi_system_table |-> "none",
               memory_map |-> NoMemoryMap, fb |-> FALSE]
NoCpu == [cr3 |-> 0, rsp |-> Offset(0), rdi |-> Offset(0), rip |-> "stub"]
NoIter == [buffer |-> 0, entry_size |-> 0, index |-> 0, len |-> 0]

StubNew(fw) ==
    [fw |-> fw, pc |-> "entry", trace |-> <<>>, log |-> <<>>, failures |-> <<>>,
     err |-> "", fb |-> FALSE, kernel_page_table |-> 0, stack |-> 0,
     boot_info |-> 0, mmap |-> 0, mmap_iter |-> NoIter, info |-> NoBootInfo,
     cpu |-> NoCpu, kernel_iter |-> NoMemoryMap, yielded |-> <<>>]

Called(s, service) == [s EXCEPT !.trace = Append(@, service)]
Logged(s, level, text) == [s EXCEPT !.log = Append(@, <<level, text>>)]
Failed(s, what) == [s EXCEPT !.failures = Append(@, what)]

\* `?` in setup_boot: the error string goes back to efi_main
SetupErr(s, what, text) == [Failed(s, what) EXCEPT !.pc = "setup_err", !.err = text]

\* BootAllocator::allocate_pages / allocate_pool: one call of the service
RECURSIVE AllocatePages(_, _)
AllocatePages(s, calls) ==
    IF calls = 0 THEN s ELSE AllocatePages(Called(s, "AllocatePages"), calls - 1)

AllocatePool(s) == Called(s, "AllocatePool")

\* common::init(config::LOG_LEVEL)?
CommonInit(s, ok) ==
    IF ok THEN [s EXCEPT !.pc = "gop"]
    ELSE SetupErr(s, "logger", "Could not initialize logger")

\* boot_serv.locate_protocol::<GraphicsOutput>() ... map_or_else
LocateGraphicsOutput(s) ==
    LET c == Called(s, "LocateProtocol") IN
    IF s.fw.gop THEN [c EXCEPT !.pc = "page_table", !.fb = TRUE]
    ELSE [Logged(Failed(c, "locate graphics output"), "error",
                 "Failed to locate graphics output")
          EXCEPT !.pc = "page_table", !.fb = FALSE]

\* kernel_page_table: boot_alloc.allocate_pages(1)?
AllocateKernelPageTable(s, ok) ==
    LET c == AllocatePages(s, 1) IN
    IF ok THEN [c EXCEPT !.pc = "kernel_info", !.kernel_page_table = PageTableAddr]
    ELSE SetupErr(c, "allocate pages", "Failed to allocate pages")

\* KERNEL.info(false)?
KernelInfo(s, ok) ==
    IF ok THEN [s EXCEPT !.pc = "setup_mappings"]
    ELSE SetupErr(s, "elf parse", "ELF error")

\* kernel_info.setup_mappings(&mut offset_kpt, &mut boot_alloc)?: the
\* frames it takes come from allocate_pages(1), one call each
StubSetupMappings(s, frames, ok) ==
    LET c == AllocatePages(s, frames) IN
    IF ok THEN [Called(c, "map_to") EXCEPT !.pc = "identity_map"]
    ELSE SetupErr(c, "elf mapping", "ELF error")

\* identity_map of the two frames around switch_to_kernel, map_err(..)?
IdentityMap(s, frames, ok) ==
    LET c == AllocatePages(s, frames) IN
    IF ok THEN [Called(c, "identity_map") EXCEPT !.pc = "stack"]
    ELSE SetupErr(c, "identity mapping", "Mapping error")

\* let stack = boot_alloc.allocate_pages(16)? + 15 * 0x1000
AllocateStack(s, ok) ==
    LET c == AllocatePages(s, 1) IN
    IF ok THEN [c EXCEPT !.pc = "boot_info",
                         !.stack = s.fw.stack_base + 15 * PageSize]
    ELSE SetupErr(c, "allocate pages", "Failed to allocate pages")

\* boot_info: boot_alloc.allocate_pool(size)?
AllocateBootInfo(s, ok) ==
    LET c == AllocatePool(s) IN
    IF ok THEN [c EXCEPT !.pc = "mmap", !.boot_info = BootInfoAddr]
    ELSE SetupErr(c, "allocate pool", "Failed to allocate pool")

\* mmap: boot_serv.memory_map_size() + 256, boot_alloc.allocate_pool(..)?,
\* and the Ok(..) setup_boot returns
AllocateMmap(s, ok) ==
    LET c == AllocatePool(Called(s, "GetMemoryMap")) IN
    IF ok THEN [c EXCEPT !.pc = "exit", !.mmap = MmapAddr]
    ELSE SetupErr(c, "allocate pool", "Failed to allocate pool")

\* fn shutdown: rt.reset(ResetType::Shutdown, ..), a runtime service
Shutdown(s) == [Called(s, "ResetSystem") EXCEPT !.pc = "off"]

\* efi_main, Err(s) => { log::error!("{}", s); shutdown(system_table) }
SetupFailed(s) == Shutdown(Logged(s, "error", s.err))

\* system_table.exit_boot_services(image_handler, setup.mmap)? skipped
ExitBootServicesSkipped(s, ok) ==
    IF ok
    THEN [s EXCEPT !.pc = "final",
                   !.mmap_iter = [buffer |-> s.mmap, entry_size |-> s.fw.entry_size,
                                  index |-> 0, len |-> s.fw.descriptors]]
    ELSE [Failed(s, "exit boot services") EXCEPT !.pc = "returned"]

\* system_table.exit_boot_services(image_handler, setup.mmap)?: on success
\* the firmware has written its final memory map into the buffer and the
\* iterator stands before its first descriptor; on failure `?` makes
\* efi_main return the status
ExitBootServices(s, ok) ==
    LET c == Called(s, "ExitBootServices") IN
    IF ok
    THEN [c EXCEPT !.pc = "final",
                   !.mmap_iter = [buffer |-> s.mmap, entry_size |-> s.fw.entry_size,
                                  index |-> 0, len |-> s.fw.descriptors]]
    ELSE [Failed(c, "exit boot services") EXCEPT !.pc = "returned"]

\* mmap_iter.next(): the address of the next descriptor, if any
MmapIterNext(it) ==
    IF it.index < it.len
    THEN [some |-> TRUE, addr |-> it.buffer + it.index * it.entry_size,
          it |-> [it EXCEPT !.index = @ + 1]]
    ELSE [some |-> FALSE, addr |-> 0, it |-> it]

\* mmap_iter.len() (ExactSizeIterator): the descriptors still to come
MmapIterLen(it) == it.len - it.index

\* MemoryMap::new(ptr, size, len)
MemoryMapNew(ptr, size, len) == [ptr |-> ptr, size |-> size, len |-> len]

\* efi_main after exit_boot_services: the stride, the count, the pointer,
\* and boot_info.write(BootInfo { .. })
FinalSetup(s) ==
    LET fst == MmapIterNext(s.mmap_iter)
        snd == MmapIterNext(fst.it)
        size == IF fst.some /\ snd.some THEN snd.addr - fst.addr
                ELSE DescriptorSize
        len == MmapIterLen(snd.it)
        ptr == Offset(s.mmap)
    IN [Called(s, "WriteBootInfo")
        EXCEPT !.pc = "switch", !.mmap_iter = snd.it,
               !.info = [written |-> TRUE, uefi_system_table |-> "runtime",
                         memory_map |-> MemoryMapNew(ptr, size, len),
                         fb |-> s.fb]]

\* switch_to_kernel: mov cr3, mov rsp, jmp with rdi = boot_info + USIZE
SwitchToKernel(s) ==
    [Called(s, "JumpToKernel")
     EXCEPT !.pc = "kernel",
            !.cpu = [cr3 |-> s.kernel_page_table, rsp |-> Offset(s.stack),
                     rdi |-> Offset(s.boot_info), rip |-> "entry_point"],
            !.kernel_iter = s.info.memory_map]

\* impl Iterator for MemoryMap, fn next
MemoryMapNext(mm) ==
    IF mm.len = 0 THEN [some |-> FALSE, item |-> Offset(0), mm |-> mm]
    ELSE [some |-> TRUE, item |-> mm.ptr,
          mm |-> [mm EXCEPT !.ptr = Offset(mm.ptr.off + mm.size), !.len = @ - 1]]

InitBootVars == \E fw \in Firmwares : boot = StubNew(fw)

StubCommonInit ==
    /\ boot.pc = "entry"
    /\ \E ok \in BOOLEAN : boot' = CommonInit(boot, ok)

StubLocateGraphicsOutput ==
    /\ boot.pc = "gop"
    /\ boot' = LocateGraphicsOutput(boot)

StubAllocateKernelPageTable ==
    /\ boot.pc = "page_table"
    /\ \E ok \in BOOLEAN : boot' = AllocateKernelPageTable(boot, ok)

StubKernelInfo ==
    /\ boot.pc = "kernel_info"
    /\ \E ok \in BOOLEAN : boot' = KernelInfo(boot, ok)

StubKernelMappings ==
    /\ boot.pc = "setup_mappings"
    /\ \E frames \in 1..MaxTableFrames, ok \in BOOLEAN :
          boot' = StubSetupMappings(boot, frames, ok)

StubIdentityMap ==
    /\ boot.pc = "identity_map"
    /\ \E frames \in 0..MaxTableFrames, ok \in BOOLEAN :
          boot' = IdentityMap(boot, frames, ok)

StubAllocateStack ==
    /\ boot.pc = "stack"
    /\ \E ok \in BOOLEAN : boot' = AllocateStack(boot, ok)

StubAllocateBootInfo ==
    /\ boot.pc = "boot_info"
    /\ \E ok \in BOOLEAN : boot' = AllocateBootInfo(boot, ok)

StubAllocateMmap ==
    /\ boot.pc = "mmap"
    /\ \E ok \in BOOLEAN : boot' = AllocateMmap(boot, ok)

StubSetupFailed ==
    /\ boot.pc = "setup_err"
    /\ boot' = SetupFailed(boot)

StubExitBootServices ==
    /\ boot.pc = "exit"
    /\ \E ok \in BOOLEAN : boot' = ExitBootServices(boot, ok)

StubFinalSetup ==
    /\ boot.pc = "final"
    /\ boot' = FinalSetup(boot)

StubSwitchToKernel ==
    /\ boot.pc = "switch"
    /\ boot' = SwitchToKernel(boot)

\* the kernel walks boot_info.memory_map until next() returns None
KernelMemoryMapNext ==
    /\ boot.pc = "kernel"
    /\ LET n == MemoryMapNext(boot.kernel_iter) IN
       boot' = [boot EXCEPT !.kernel_iter = n.mm,
                            !.yielded = IF n.some THEN Append(@, n.item) ELSE @,
                            !.pc = IF n.some THEN "kernel" ELSE "walked"]

(***************************************************************************)
(* Bump allocator (kernel/src/allocator/bump.rs), shared by threads.  Each *)
(* atomic operation of allocate and count_decrease is one step of the      *)
(* calling thread; the steps of different threads interleave freely.       *)
(***************************************************************************)

\* the threads that call the global allocator
Threads == {1, 2}
\* calls of alloc or dealloc one thread makes
MaxCalls == 3

RaceHeapStart == 4096
RaceHeapSizes == {20}
RaceLayouts == [size : {8, 32}, align : {8}] \cup [size : {4}, align : {1}]

ThreadNew ==
    [pc |-> "idle", calls |-> 0, layout |-> [size |-> 0, align |-> 1],
     op |-> "none", start |-> 0, next |-> 0, ret |-> Null, reset |-> "none"]

\* `live`: the blocks handed out and not yet given back; `allocs` numbers
\* them; `reset_live`: a reset of next took effect while a block was live
RaceNew ==
    [b |-> BumpNew, th |-> [t \in Threads |-> ThreadNew], live |-> {},
     allocs |-> 0, reset_live |-> FALSE]

\* self.count.fetch_add(1, Ordering::Acquire)
FetchAdd(b) == [b EXCEPT !.count = @ + 1]

\* mutant: a block may end exactly at end
FetchUpdateInclusive(b, layout) ==
    LET start_addr == AlignUp(b.next, layout.align)
        end_addr == start_addr + layout.size
    IN IF end_addr <= b.end
       THEN [b |-> [b EXCEPT !.next = end_addr], ok |-> TRUE, start_addr |-> start_addr]
       ELSE [b |-> b, ok |-> FALSE, start_addr |-> start_addr]

\* self.next.fetch_update(.., |next| ..): one atomic read-modify-write
FetchUpdate(b, layout) ==
    LET start_addr == AlignUp(b.next, layout.align)
        end_addr == start_addr + layout.size
    IN IF end_addr < b.end
       THEN [b |-> [b EXCEPT !.next = end_addr], ok |-> TRUE, start_addr |-> start_addr]
       ELSE [b |-> b, ok |-> FALSE, start_addr |-> start_addr]

\* self.count.fetch_sub(1, Ordering::Release): the value before
FetchSub(b) == [b |-> [b EXCEPT !.count = @ - 1], old |-> b.count]

\* mutant: the reset stores start whatever next holds
CompareExchangeStore(b, current, new) ==
    [b |-> [b EXCEPT !.next = new], ok |-> TRUE]

\* self.next.compare_exchange(next, start, ..)
CompareExchange(b, current, new) ==
    IF b.next = current
    THEN [b |-> [b EXCEPT !.next = new], ok |-> TRUE]
    ELSE [b |-> b, ok |-> FALSE]

RaceIdle(t) == race.th[t].pc = "idle" /\ race.th[t].calls < MaxCalls

\* ALLOC.init(heap_start, heap_size), once, before the heap is used
RaceInit ==
    /\ race.b.start = 0
    /\ \E hz \in RaceHeapSizes :
          race' = [race EXCEPT !.b = BumpInitFields(@, RaceHeapStart, hz)]

\* GlobalAlloc::alloc up to the fetch_add: the check of start, the
\* increment of count
RaceAllocEnter ==
    \E t \in Threads, layout \in RaceLayouts :
       /\ RaceIdle(t)
       /\ race' =
            IF race.b.start = 0
            THEN [race EXCEPT !.th[t] = [@ EXCEPT !.calls = @ + 1, !.layout = layout,
                                                  !.op = "alloc",
                                                  !.ret = Null, !.reset = "none"]]
            ELSE [race EXCEPT !.b = FetchAdd(@),
                              !.th[t] = [@ EXCEPT !.pc = "fetch_update",
                                                  !.calls = @ + 1,
                                                  !.layout = layout,
                                                  !.op = "alloc",
                                                  !.ret = Null, !.reset = "none"]]

\* allocate, the fetch_update of next and what follows from its result
RaceFetchUpdate ==
    \E t \in Threads :
       /\ race.th[t].pc = "fetch_update"
       /\ LET r == FetchUpdate(race.b, race.th[t].layout) IN
          race' =
            IF r.ok
            THEN [race EXCEPT !.b = r.b,
                              !.th[t] = [@ EXCEPT !.pc = "idle", !.ret = r.start_addr],
                              !.allocs = @ + 1,
                              !.live = @ \cup {[id |-> race.allocs + 1, owner |-> t,
                                                addr |-> r.start_addr,
                                                size |-> race.th[t].layout.size]}]
            ELSE [race EXCEPT !.th[t] = [@ EXCEPT !.pc = "load"]]

\* GlobalAlloc::dealloc of a block the thread holds
RaceDeallocEnter ==
    \E t \in Threads :
       /\ RaceIdle(t)
       /\ \E blk \in {x \in race.live : x.owner = t} :
             race' = [race EXCEPT !.live = @ \ {blk},
                                  !.th[t] = [@ EXCEPT !.pc = "load", !.calls = @ + 1,
                                                      !.op = "dealloc",
                                                      !.ret = Null, !.reset = "none"]]

\* count_decrease: the loads of start and next
RaceLoad ==
    \E t \in Threads :
       /\ race.th[t].pc = "load"
       /\ race' = [race EXCEPT !.th[t] = [@ EXCEPT !.pc = "fetch_sub",
                                                   !.start = race.b.start,
                                                   !.next = race.b.next]]

\* count_decrease: the fetch_sub of count
RaceFetchSub ==
    \E t \in Threads :
       /\ race.th[t].pc = "fetch_sub"
       /\ LET r == FetchSub(race.b) IN
          race' = [race EXCEPT !.b = r.b,
                               !.th[t] = [@ EXCEPT !.pc = IF r.old = 1 THEN "cas"
                                                          ELSE "idle"]]

\* count_decrease: the compare_exchange of next
RaceCompareExchange ==
    \E t \in Threads :
       /\ race.th[t].pc = "cas"
       /\ LET r == CompareExchange(race.b, race.th[t].next, race.th[t].start) IN
          race' = [race EXCEPT !.b = r.b,
                               !.th[t] = [@ EXCEPT !.pc = "idle",
                                                   !.reset = IF r.ok THEN "ok"
                                                             ELSE "failed"],
                               !.reset_live = @ \/ (r.ok /\ race.live # {})]

(***************************************************************************)
(* The heap mutex of the free-list allocator (linked_list.rs): a call as   *)
(* the sequence of its lock, walk and unlock steps.  mx.stack holds the    *)
(* frames of the call in progress, innermost last; a frame is at `spin`    *)
(* when it waits for a mutex that is held.                                 *)
(***************************************************************************)

NoBlock == [addr |-> Null, size |-> 0, align |-> 1]

\* the call in progress: its arguments and the result of allocate
NoMxCall ==
    [op |-> "none", blk |-> NoBlock, layout |-> [size |-> 0, align |-> 1],
     new_size |-> 0, hole |-> NoHole, range |-> [start |-> 0, size |-> 0],
     fresh |-> Null]

\* LinkedListAllocator::new: Mutex::new(..), unlocked
MxNew == [held |-> FALSE, stack |-> <<>>, call |-> NoMxCall]

Frame(fn, pc) == [fn |-> fn, pc |-> pc, guard |-> FALSE]
Top(m) == m.stack[Len(m.stack)]
AtTop(m, fn, pc) == m.stack # <<>> /\ Top(m).fn = fn /\ Top(m).pc = pc
Goto(m, pc) == [m EXCEPT !.stack[Len(m.stack)].pc = pc]
Enter(m, frame) == [m EXCEPT !.stack = Append(@, frame)]
Leave(m) == [m EXCEPT !.stack = SubSeq(@, 1, Len(@) - 1)]

\* LinkedListAllocator::head: self.0.lock(), which spins while the mutex is
\* held and hands out the guard otherwise
LockHead(m) ==
    IF m.held THEN Goto(m, "spin")
    ELSE [m EXCEPT !.held = TRUE,
                   !.stack[Len(m.stack)].guard = TRUE,
                   !.stack[Len(m.stack)].pc = "walk"]

\* drop of the MutexGuard the innermost frame holds: at drop(head) and at
\* the return of the function that took it
DropGuard(m) ==
    [m EXCEPT !.held = IF Top(m).guard THEN FALSE ELSE @,
              !.stack[Len(m.stack)].guard = FALSE]

\* mutant: the guard of reallocate is still alive when allocate is called
KeepHead(m) == m

\* drop(iter); drop(head) in reallocate, ahead of the fallback
DropHead(m) == DropGuard(m)

\* the layouts reallocate works with
MxOld(c) == NodeLayoutFrom([size |-> c.blk.size, align |-> c.blk.align])
MxNewLayout(c) == NodeLayoutFrom([size |-> c.new_size, align |-> c.blk.align])

\* the layout allocate is called with: alloc's own or reallocate's new one
MxLayout(c) ==
    IF c.op = "realloc" THEN MxNewLayout(c) ELSE NodeLayoutFrom(c.layout)

\* the live set once the call has returned `ret`
Finished(h, c, ret, panicked) ==
    IF panicked THEN h
    ELSE IF c.op = "init" THEN [h EXCEPT !.given = @ \cup {c.range}]
    ELSE IF c.op = "alloc"
         THEN [h EXCEPT !.live = IF ret = Null THEN @
                                 ELSE @ \cup {[addr |-> ret, size |-> c.layout.size,
                                               align |-> c.layout.align]}]
    ELSE IF c.op = "dealloc" THEN [h EXCEPT !.live = @ \ {c.blk}]
    ELSE [h EXCEPT !.live = IF ret = Null THEN @
                            ELSE (@ \ {c.blk}) \cup
                                 {[addr |-> ret, size |-> c.new_size,
                                   align |-> c.blk.align]}]

MxQuiet == mx.stack = <<>> /\ ~ll.panicked
MxRunning == mx.stack # <<>> /\ ~ll.panicked

\* LinkedListAllocator::init: push(Hole::new(heap_start, heap_size))
MxCallInit ==
    /\ MxQuiet
    /\ \E r \in ListRanges :
          /\ \A g \in llHist.given : ~RangesOverlap(r, g)
          /\ mx' = [mx EXCEPT !.stack = <<Frame("push", "head")>>,
                              !.call = [NoMxCall EXCEPT
                                          !.op = "init", !.range = r,
                                          !.hole = [addr |-> r.start,
                                                    size |-> r.size]]]
    /\ UNCHANGED <<ll, llHist, llMem, llCall>>

\* GlobalAlloc::alloc: self.allocate(layout.into())
MxCallAlloc ==
    /\ MxQuiet
    /\ Cardinality(llHist.live) < MaxLive
    /\ \E layout \in ListLayouts :
          mx' = [mx EXCEPT !.stack = <<Frame("allocate", "head")>>,
                           !.call = [NoMxCall EXCEPT !.op = "alloc",
                                                     !.layout = layout]]
    /\ UNCHANGED <<ll, llHist, llMem, llCall>>

\* GlobalAlloc::dealloc: self.deallocate(..), which is push(Hole::from_alloc)
MxCallDealloc ==
    /\ MxQuiet
    /\ \E blk \in llHist.live :
          mx' = [mx EXCEPT
                   !.stack = <<Frame("push", "head")>>,
                   !.call = [NoMxCall EXCEPT
                               !.op = "dealloc", !.blk = blk,
                               !.hole = [addr |-> blk.addr,
                                         size |-> NodeLayoutFrom(
                                            [size |-> blk.size,
                                             align |-> blk.align]).size]]]
    /\ UNCHANGED <<ll, llHist, llMem, llCall>>

\* GlobalAlloc::realloc: self.reallocate(..)
MxCallRealloc ==
    /\ MxQuiet
    /\ \E blk \in llHist.live, new_size \in ListNewSizes :
          mx' = [mx EXCEPT !.stack = <<Frame("reallocate", "fit")>>,
                           !.call = [NoMxCall EXCEPT !.op = "realloc",
                                                     !.blk = blk,
                                                     !.new_size = new_size]]
    /\ UNCHANGED <<ll, llHist, llMem, llCall>>

\* reallocate before it locks: a new layout of the same expanded size is
\* answered from the arguments alone
MxFit ==
    /\ MxRunning
    /\ AtTop(mx, "reallocate", "fit")
    /\ LET c == mx.call
           fit == FitAlloc([addr |-> c.blk.addr, size |-> MxOld(c).size],
                           MxNewLayout(c))
       IN IF fit.ok /\ ~IsSome(fit.after)
          THEN /\ mx' = Leave(mx)
               /\ llHist' = Finished(llHist, c, c.blk.addr, FALSE)
          ELSE /\ mx' = Goto(mx, "head")
               /\ UNCHANGED llHist
    /\ UNCHANGED <<ll, llMem, llCall>>

\* let mut head = self.head() of push, allocate and reallocate
MxHead ==
    /\ MxRunning
    /\ Top(mx).pc = "head"
    /\ mx' = LockHead(mx)
    /\ UNCHANGED <<ll, llHist, llMem, llCall>>

\* allocate's walk over the list
MxAllocateWalk ==
    /\ MxRunning
    /\ AtTop(mx, "allocate", "walk")
    /\ LET a == Allocate(ll.nodes, MxLayout(mx.call))
       IN /\ ll' = [nodes |-> a.nodes, panicked |-> a.panicked]
          /\ mx' = [Goto(mx, "drop") EXCEPT !.call.fresh = a.ret]
    /\ UNCHANGED <<llHist, llMem, llCall>>

\* push's walk over the list
MxPushWalk ==
    /\ MxRunning
    /\ AtTop(mx, "push", "walk")
    /\ LET c == mx.call
           hole == IF c.op = "realloc"
                   THEN [addr |-> c.blk.addr, size |-> MxOld(c).size]
                   ELSE c.hole
           p == Push(ll.nodes, hole)
       IN /\ ll' = [nodes |-> p.nodes, panicked |-> p.panicked]
          /\ mx' = Goto(mx, "drop")
    /\ UNCHANGED <<llHist, llMem, llCall>>

\* reallocate's walk: grow or shrink where the block is, or go on to the
\* fallback with the list untouched
MxReallocateWalk ==
    /\ MxRunning
    /\ AtTop(mx, "reallocate", "walk")
    /\ LET c == mx.call
           r == ReallocateAt(ll.nodes, 1,
                             [addr |-> c.blk.addr, size |-> MxOld(c).size],
                             MxOld(c), MxNewLayout(c))
           here == r.ret = c.blk.addr
                      \/ (r.panicked
                            /\ ~Allocate(ll.nodes, MxNewLayout(c)).panicked)
       IN IF here
          THEN /\ ll' = [nodes |-> r.nodes, panicked |-> r.panicked]
               /\ mx' = [Goto(mx, "drop") EXCEPT !.call.fresh = r.ret]
          ELSE /\ mx' = Goto(mx, "drop_fallback")
               /\ UNCHANGED ll
    /\ UNCHANGED <<llHist, llMem, llCall>>

\* drop(iter); drop(head) ahead of the fallback
MxDropFallback ==
    /\ MxRunning
    /\ AtTop(mx, "reallocate", "drop_fallback")
    /\ mx' = Goto(DropHead(mx), "allocate")
    /\ UNCHANGED <<ll, llHist, llMem, llCall>>

\* let new_addr = self.allocate(new_layout)
MxFallbackAllocate ==
    /\ MxRunning
    /\ AtTop(mx, "reallocate", "allocate")
    /\ mx' = Enter(Goto(mx, "allocated"), Frame("allocate", "head"))
    /\ UNCHANGED <<ll, llHist, llMem, llCall>>

\* ptr::copy_nonoverlapping(..); self.deallocate(addr, layout)
MxCopy ==
    /\ MxRunning
    /\ AtTop(mx, "reallocate", "copy")
    /\ mx' = Enter(Goto(mx, "deallocated"), Frame("push", "head"))
    /\ UNCHANGED <<ll, llHist, llMem, llCall>>

\* the innermost function returns: its guard is dropped and its caller goes
\* on; reallocate returns new_addr once allocate gave None or deallocate
\* is back
MxDrop ==
    /\ MxRunning
    /\ Top(mx).pc = "drop"
    /\ LET c == mx.call
           m == Leave(DropGuard(mx))
           back == m.stack # <<>> /\ Top(m).pc = "allocated" /\ c.fresh # Null
           ret == IF c.op \in {"init", "dealloc"} THEN Null ELSE c.fresh
       IN IF back
          THEN /\ mx' = Goto(m, "copy")
               /\ UNCHANGED llHist
          ELSE /\ mx' = [m EXCEPT !.stack = <<>>]
               /\ llHist' = Finished(llHist, c, ret, FALSE)
    /\ UNCHANGED <<ll, llMem, llCall>>

InitMutexVars ==
    /\ ll = ListNew
    /\ llHist = ListHistNew
    /\ llMem = MemNew
    /\ llCall = NoCall
    /\ mx = MxNew

(***************************************************************************)
(* The CPU, the serial port and the exception and interrupt handlers       *)
(* (common/src/serial.rs, common/src/lib.rs, kernel/src/interrupts.rs,     *)
(* kernel/src/main.rs).  cpu.stack holds the frames of the code in         *)
(* progress, innermost last: the kernel, a print it called, a handler the  *)
(* CPU entered on top of it, a print the handler called.  The timer        *)
(* interrupt is delivered between any two steps while RFLAGS.IF is set.    *)
(***************************************************************************)

\* bounds of the CPU model
MaxOps == 2
MaxTicks == 2

\* interrupts.rs: `if count % 1000 == 0`
LogEvery == 1000

CpuFrame(fn, pc) ==
    [fn |-> fn, pc |-> pc, line |-> "", entry |-> FALSE, saved |-> FALSE,
     rflags |-> FALSE]

\* the CPU when _start is entered: IF as the boot stub left it, SERIAL1
\* unlocked, the kernel's IDT not loaded, every PIC line masked
CpuNew(intf) ==
    [intf |-> intf, serial |-> FALSE, idt |-> FALSE, pic |-> FALSE,
     count |-> 0, ops |-> 0, halted |-> FALSE, out |-> <<>>,
     stack |-> <<CpuFrame("kernel", "serial_init")>>]

CpuIdle == [CpuNew(FALSE) EXCEPT !.stack = <<>>]

\* Mutex::lock on SERIAL1: takes the lock, or spins while it is held
SerialLock(c, then) ==
    IF c.serial THEN Goto(c, "spin")
    ELSE Goto([c EXCEPT !.serial = TRUE], then)

\* drop of the MutexGuard
SerialUnlock(c, then) == Goto([c EXCEPT !.serial = FALSE], then)

\* a call of serial::print (through println!, log::info! and the like)
\* that writes `line`; the caller goes on at `then`
CallPrint(c, line, then) ==
    Enter(Goto(c, then),
          [CpuFrame("print", "flags") EXCEPT !.line = line, !.entry = c.intf])

\* without_interrupts: let saved_intpt_flag = are_enabled()
SaveFlags(c) ==
    Goto([c EXCEPT !.stack[Len(c.stack)].saved = c.intf], "cli")

\* mutant: the closure runs with the interrupt flag as it is
KeepEnabled(c) == Goto(c, "lock")

\* without_interrupts: if saved_intpt_flag { disable() }
DisableSaved(c) ==
    Goto([c EXCEPT !.intf = IF Top(c).saved THEN FALSE ELSE @], "lock")

\* SERIAL1.lock().write_fmt(args)
WriteFmt(c) == Goto([c EXCEPT !.out = Append(@, Top(c).line)], "unlock")

\* without_interrupts: if saved_intpt_flag { enable() }, and print returns
RestoreSaved(c) ==
    Leave([c EXCEPT !.intf = IF Top(c).saved THEN TRUE ELSE @])

\* the CPU enters a handler through an interrupt gate: RFLAGS is pushed, IF
\* is cleared, a halted CPU wakes up
Interrupt(c, fn) ==
    Enter([c EXCEPT !.intf = FALSE, !.halted = FALSE],
          [CpuFrame(fn, "entry") EXCEPT !.rflags = c.intf])

\* mutant: iretq that takes up the interrupted code again
FaultReturns(c) == Goto(c, "iret")

\* panic!(..): the panic handler runs on top of the frame that panicked
Panic(c) == Enter(Goto(c, "panicked"), CpuFrame("panic_handler", "println1"))

\* iretq: RIP and RFLAGS of the interrupted code are popped
Iret(c) == Leave([c EXCEPT !.intf = Top(c).rflags])

\* int3 is a trap: the RIP pushed is that of the next instruction
Int3(c) == Interrupt(Goto(c, "after_int3"), "breakpoint")

\* timer_interrupt_handler: COUNT.fetch_add(1) and the test of the old value
TimerCount(c) ==
    Goto([c EXCEPT !.count = @ + 1],
         IF c.count % LogEvery = 0 THEN "log" ELSE "eoi")

\* the line a handler logs
HandlerLine(fn) ==
    CASE fn = "breakpoint" -> "Breakpoint"
      [] fn = "page_fault" -> "Page fault"
      [] fn = "double_fault" -> "Double fault"
      [] OTHER -> "Handling timer interrupt"

\* where a handler goes on after its log line
AfterLog(fn) ==
    CASE fn = "breakpoint" -> "iret"
      [] fn = "timer" -> "eoi"
      [] OTHER -> "panic"

\* panic_handler: the four println! and where each goes on
PanicLines ==
    [println1 |-> [line |-> "", then |-> "println2"],
     println2 |-> [line |-> "KERNEL PANIC", then |-> "println3"],
     println3 |-> [line |-> "", then |-> "println4"],
     println4 |-> [line |-> "PanicInfo", then |-> "hlt"]]

CpuRunning == cpu.stack # <<>>
CpuAt(fn, pc) == AtTop(cpu, fn, pc)

\* serial::init: SERIAL1.lock()
KernelSerialLock ==
    /\ \/ CpuAt("kernel", "serial_init")
       \/ CpuAt("kernel", "spin")
    /\ cpu' = SerialLock(cpu, "serial_locked")

\* serial::init: .init() and the drop of the guard; logger::init
KernelSerialInit ==
    /\ CpuAt("kernel", "serial_locked")
    /\ cpu' = SerialUnlock(cpu, "heap")

\* allocator::init: log::debug!(..)
KernelHeapLog ==
    /\ CpuAt("kernel", "heap")
    /\ cpu' = CallPrint(cpu, "Heap", "idt")

\* interrupts::init: gdt::init(), IDT.call_once(..), idt.load()
KernelIdtLoad ==
    /\ CpuAt("kernel", "idt")
    /\ cpu' = Goto([cpu EXCEPT !.idt = TRUE], "pic")

\* interrupts::init: pic::init()
KernelPicInit ==
    /\ CpuAt("kernel", "pic")
    /\ cpu' = Goto([cpu EXCEPT !.pic = TRUE], "enable")

\* interrupts::init: interrupts::enable()
KernelEnable ==
    /\ CpuAt("kernel", "enable")
    /\ cpu' = Goto([cpu EXCEPT !.intf = TRUE], "run")

\* the kernel logs or prints (println!, log::info!)
KernelPrint ==
    /\ CpuAt("kernel", "run")
    /\ cpu.ops < MaxOps
    /\ cpu' = CallPrint([cpu EXCEPT !.ops = @ + 1], "Kernel", "run")

\* the kernel comes to an int3 (tests::int3)
KernelInt3 ==
    /\ CpuAt("kernel", "run")
    /\ cpu.ops < MaxOps
    /\ cpu' = Goto([cpu EXCEPT !.ops = @ + 1], "int3")

\* the kernel comes to an access of an unmapped address
KernelAccess ==
    /\ CpuAt("kernel", "run")
    /\ cpu.ops < MaxOps
    /\ cpu' = Goto([cpu EXCEPT !.ops = @ + 1], "access")

\* the kernel panics (an unwrap of an Err, alloc_error)
KernelPanic ==
    /\ CpuAt("kernel", "run")
    /\ cpu.ops < MaxOps
    /\ cpu' = Panic([cpu EXCEPT !.ops = @ + 1])

\* the instruction after the int3: tests::int3 returns
KernelAfterInt3 ==
    /\ CpuAt("kernel", "after_int3")
    /\ cpu' = Goto(cpu, "run")

\* #BP
Breakpoint ==
    /\ CpuAt("kernel", "int3")
    /\ cpu' = Int3(cpu)

\* #PF: the RIP pushed is that of the faulting instruction
PageFault ==
    /\ CpuAt("kernel", "access")
    /\ cpu' = Interrupt(cpu, "page_fault")

\* #DF: the page fault could not be delivered
DoubleFault ==
    /\ CpuAt("kernel", "access")
    /\ cpu' = Interrupt(cpu, "double_fault")

\* IRQ 0, taken between two instructions while IF is set
TimerInterrupt ==
    /\ CpuRunning
    /\ cpu.intf /\ cpu.idt /\ cpu.pic
    /\ cpu.count < MaxTicks
    /\ cpu' = Interrupt(cpu, "timer")

\* timer_interrupt_handler: the count
TimerFetchAdd ==
    /\ CpuAt("timer", "entry")
    /\ cpu' = TimerCount(cpu)

\* timer_interrupt_handler: PICS.lock().notify_end_of_interrupt(..)
TimerEoi ==
    /\ CpuAt("timer", "eoi")
    /\ cpu' = Goto(cpu, "iret")

\* log::warn! / log::error! / log::info! of a handler
HandlerLog ==
    /\ CpuRunning
    /\ \/ Top(cpu).fn \in {"breakpoint", "page_fault", "double_fault"}
          /\ Top(cpu).pc = "entry"
       \/ CpuAt("timer", "log")
    /\ cpu' = CallPrint(cpu, HandlerLine(Top(cpu).fn), AfterLog(Top(cpu).fn))

\* panic!("page fault") / panic!("double fault")
HandlerPanic ==
    /\ CpuRunning
    /\ Top(cpu).fn \in {"page_fault", "double_fault"}
    /\ Top(cpu).pc = "panic"
    /\ cpu' = Panic(cpu)

\* the end of breakpoint_handler and of timer_interrupt_handler
HandlerIret ==
    /\ CpuRunning
    /\ Top(cpu).pc = "iret"
    /\ cpu' = Iret(cpu)

\* panic_handler: println!()
PanicPrintln ==
    /\ CpuRunning
    /\ Top(cpu).fn = "panic_handler"
    /\ Top(cpu).pc \in DOMAIN PanicLines
    /\ cpu' = CallPrint(cpu, PanicLines[Top(cpu).pc].line, PanicLines[Top(cpu).pc].then)

\* panic_handler: loop { hlt() }
PanicHlt ==
    /\ CpuAt("panic_handler", "hlt")
    /\ ~cpu.halted
    /\ cpu' = [cpu EXCEPT !.halted = TRUE]

PrintFlags ==
    /\ CpuAt("print", "flags")
    /\ cpu' = SaveFlags(cpu)

PrintCli ==
    /\ CpuAt("print", "cli")
    /\ cpu' = DisableSaved(cpu)

PrintLock ==
    /\ \/ CpuAt("print", "lock")
       \/ CpuAt("print", "spin")
    /\ cpu' = SerialLock(cpu, "write")

PrintWrite ==
    /\ CpuAt("print", "write")
    /\ cpu' = WriteFmt(cpu)

PrintUnlock ==
    /\ CpuAt("print", "unlock")
    /\ cpu' = SerialUnlock(cpu, "sti")

PrintSti ==
    /\ CpuAt("print", "sti")
    /\ cpu' = RestoreSaved(cpu)

\* every step of the code in progress; the timer interrupt is not one
CpuStep ==
    \/ KernelSerialLock \/ KernelSerialInit \/ KernelHeapLog
    \/ KernelIdtLoad \/ KernelPicInit \/ KernelEnable
    \/ KernelPrint \/ KernelInt3 \/ KernelAccess \/ KernelPanic
    \/ KernelAfterInt3
    \/ Breakpoint \/ PageFault \/ DoubleFault
    \/ TimerFetchAdd \/ TimerEoi
    \/ HandlerLog \/ HandlerPanic \/ HandlerIret
    \/ PanicPrintln \/ PanicHlt
    \/ PrintFlags \/ PrintCli \/ PrintLock \/ PrintWrite \/ PrintUnlock
    \/ PrintSti

InitCpuVars == \E intf \in BOOLEAN : cpu = CpuNew(intf)

(***************************************************************************)
(* Idle values of the subsystems a specification does not exercise         *)
(***************************************************************************)

IdleBump == bump = BumpNew /\ bumpHist = BumpHistNew

IdleRegion ==
    /\ memory_map = <<>>
    /\ rfa = RegionNew(<<>>)
    /\ rfaHist = [returned |-> <<>>, calls |-> 0, lastSome |-> FALSE]

IdleList == ll = ListNew /\ llHist = ListHistNew /\ llMem = MemNew /\ llCall = NoCall

IdleUser == ufa = UserNew /\ ufaHist = UserHistNew

IdleKern == kern = KernNew

IdleSys ==
    /\ sys = SysNew(<<>>, NoFb)
    /\ sysLast = Snapshot(UnknownCall(0), MmuNew(FALSE, FALSE, 0), UserNew,
                          RegionNew(<<>>), KernNew, SysNew(<<>>, NoFb))

IdleElf ==
    /\ elf = [pie |-> FALSE, user |-> FALSE, headers |-> <<>>, sections |-> <<>>]
    /\ mmu = MmuNew(FALSE, FALSE, 0)

IdleBoot == boot = StubNew(IdleFirmware)

IdleRace == race = RaceNew

IdleCpu == cpu = CpuIdle

IdleLock == mx = MxNew

(***************************************************************************)
(* Specifications                                                          *)
(***************************************************************************)

InitBump == IdleCpu /\ IdleLock /\ IdleBoot /\ IdleRace /\ IdleKern /\ IdleSys /\ InitBumpVars /\ IdleRegion /\ IdleList /\ IdleElf /\ IdleUser

NextBump ==
    \/ BumpInit /\ UNCHANGED <<regionVars, listVars, elfVars, userVars, kernVars, sysVars, bootVars, raceVars, lockVars, cpuVars>>
    \/ BumpAlloc /\ UNCHANGED <<regionVars, listVars, elfVars, userVars, kernVars, sysVars, bootVars, raceVars, lockVars, cpuVars>>
    \/ BumpDealloc /\ UNCHANGED <<regionVars, listVars, elfVars, userVars, kernVars, sysVars, bootVars, raceVars, lockVars, cpuVars>>

SpecBump == InitBump /\ [][NextBump]_vars

InitRegion == IdleCpu /\ IdleLock /\ IdleBoot /\ IdleRace /\ IdleKern /\ IdleSys /\ InitRegionVars /\ IdleBump /\ IdleList /\ IdleElf /\ IdleUser

NextRegionStep == RegionAllocateFrame /\ UNCHANGED <<bumpVars, listVars, elfVars, userVars, kernVars, sysVars, bootVars, raceVars, lockVars, cpuVars>>

SpecRegion == InitRegion /\ [][NextRegionStep]_vars

InitList == IdleCpu /\ IdleLock /\ IdleBoot /\ IdleRace /\ IdleKern /\ IdleSys /\ InitListVars /\ IdleBump /\ IdleRegion /\ IdleElf /\ IdleUser

NextList ==
    \/ ListInit /\ UNCHANGED <<bumpVars, regionVars, elfVars, userVars, kernVars, sysVars, bootVars, raceVars, lockVars, cpuVars>>
    \/ ListAlloc /\ UNCHANGED <<bumpVars, regionVars, elfVars, userVars, kernVars, sysVars, bootVars, raceVars, lockVars, cpuVars>>
    \/ ListFree /\ UNCHANGED <<bumpVars, regionVars, elfVars, userVars, kernVars, sysVars, bootVars, raceVars, lockVars, cpuVars>>
    \/ ListRealloc /\ UNCHANGED <<bumpVars, regionVars, elfVars, userVars, kernVars, sysVars, bootVars, raceVars, lockVars, cpuVars>>

SpecList == InitList /\ [][NextList]_vars

InitElf == IdleCpu /\ IdleLock /\ IdleBoot /\ IdleRace /\ IdleKern /\ IdleSys /\ InitElfVars /\ IdleBump /\ IdleRegion /\ IdleList /\ IdleUser

NextElf ==
    \/ ElfSetupMappings /\ UNCHANGED <<bumpVars, regionVars, listVars, userVars, kernVars, sysVars, bootVars, raceVars, lockVars, cpuVars>>
    \/ ElfRemoveMappings /\ UNCHANGED <<bumpVars, regionVars, listVars, userVars, kernVars, sysVars, bootVars, raceVars, lockVars, cpuVars>>

SpecElf == InitElf /\ [][NextElf]_vars

InitUser == IdleCpu /\ IdleLock /\ IdleBoot /\ IdleRace /\ IdleKern /\ IdleSys /\ InitUserVars /\ IdleBump /\ IdleList /\ IdleElf

NextUser ==
    \/ UserAlloc /\ UNCHANGED <<bumpVars, listVars, elfVars, kernVars, sysVars, bootVars, raceVars, lockVars, cpuVars>>
    \/ UserDealloc /\ UNCHANGED <<bumpVars, listVars, elfVars, kernVars, sysVars, bootVars, raceVars, lockVars, cpuVars>>

SpecUser == InitUser /\ [][NextUser]_vars

InitKernel == IdleCpu /\ IdleLock /\ IdleBoot /\ IdleRace /\ InitKernelVars /\ IdleSys /\ IdleBump /\ IdleList

NextKernel ==
    \/ KernHeapInit /\ UNCHANGED <<bumpVars, listVars, sysVars, bootVars, raceVars, lockVars, cpuVars>>
    \/ KernSetupMappings /\ UNCHANGED <<bumpVars, listVars, sysVars, bootVars, raceVars, lockVars, cpuVars>>
    \/ KernStackInit /\ UNCHANGED <<bumpVars, listVars, sysVars, bootVars, raceVars, lockVars, cpuVars>>
    \/ KernRemoveMappings /\ UNCHANGED <<bumpVars, listVars, sysVars, bootVars, raceVars, lockVars, cpuVars>>

SpecKernel == InitKernel /\ [][NextKernel]_vars

InitSyscall == IdleCpu /\ IdleLock /\ IdleBoot /\ IdleRace /\ InitSyscallVars /\ IdleBump /\ IdleList

NextSyscall ==
    \/ KernHeapInit /\ UNCHANGED <<bumpVars, listVars, sysVars, bootVars, raceVars, lockVars, cpuVars>>
    \/ SpawnUser /\ UNCHANGED <<bumpVars, listVars, bootVars, raceVars, lockVars, cpuVars>>
    \/ SysExit /\ UNCHANGED <<bumpVars, listVars, bootVars, raceVars, lockVars, cpuVars>>
    \/ SysLog /\ UNCHANGED <<bumpVars, listVars, bootVars, raceVars, lockVars, cpuVars>>
    \/ SysFrameBuffer /\ UNCHANGED <<bumpVars, listVars, bootVars, raceVars, lockVars, cpuVars>>
    \/ SysUnknown /\ UNCHANGED <<bumpVars, listVars, bootVars, raceVars, lockVars, cpuVars>>

SpecSyscall == InitSyscall /\ [][NextSyscall]_vars

\* The programs that exit after at most one syscall.  A user program that
\* has issued Log or Exit is in the kernel, which does nothing else
\* meanwhile and so handles the syscall.
InitExit == IdleCpu /\ IdleLock /\ IdleBoot /\ IdleRace /\ InitExitVars /\ IdleBump /\ IdleList

SpecExit ==
    /\ InitExit
    /\ [][NextSyscall]_vars
    /\ WF_vars(SysLog /\ UNCHANGED <<bumpVars, listVars, bootVars, raceVars, lockVars, cpuVars>>)
    /\ WF_vars(SysExit /\ UNCHANGED <<bumpVars, listVars, bootVars, raceVars, lockVars, cpuVars>>)

InitStub == IdleCpu /\ IdleLock /\ InitBootVars /\ IdleRace /\ IdleKern /\ IdleSys /\ IdleBump /\ IdleRegion /\ IdleList /\ IdleElf /\ IdleUser

StubIdle == UNCHANGED <<bumpVars, regionVars, listVars, elfVars, userVars, kernVars, sysVars, raceVars, lockVars, cpuVars>>

NextStub ==
    \/ StubCommonInit /\ StubIdle
    \/ StubLocateGraphicsOutput /\ StubIdle
    \/ StubAllocateKernelPageTable /\ StubIdle
    \/ StubKernelInfo /\ StubIdle
    \/ StubKernelMappings /\ StubIdle
    \/ StubIdentityMap /\ StubIdle
    \/ StubAllocateStack /\ StubIdle
    \/ StubAllocateBootInfo /\ StubIdle
    \/ StubAllocateMmap /\ StubIdle
    \/ StubSetupFailed /\ StubIdle
    \/ StubExitBootServices /\ StubIdle
    \/ StubFinalSetup /\ StubIdle
    \/ StubSwitchToKernel /\ StubIdle
    \/ KernelMemoryMapNext /\ StubIdle

SpecStub == InitStub /\ [][NextStub]_vars

InitRace == IdleCpu /\ IdleLock /\ IdleBoot /\ race = RaceNew /\ IdleKern /\ IdleSys /\ IdleBump /\ IdleRegion /\ IdleList /\ IdleElf /\ IdleUser

RaceRest == UNCHANGED <<bumpVars, regionVars, listVars, elfVars, userVars, kernVars, sysVars, bootVars, lockVars, cpuVars>>

NextRace ==
    \/ RaceInit /\ RaceRest
    \/ RaceAllocEnter /\ RaceRest
    \/ RaceFetchUpdate /\ RaceRest
    \/ RaceDeallocEnter /\ RaceRest
    \/ RaceLoad /\ RaceRest
    \/ RaceFetchSub /\ RaceRest
    \/ RaceCompareExchange /\ RaceRest

SpecRace == InitRace /\ [][NextRace]_vars

InitHeap == IdleCpu /\ IdleLock /\ IdleBoot /\ IdleRace /\ InitHeapVars /\ IdleSys /\ IdleRegion /\ IdleList /\ IdleUser

NextHeap ==
    \/ AllocatorInit /\ UNCHANGED <<regionVars, listVars, userVars, sysVars, bootVars, raceVars, lockVars, cpuVars>>
    \/ BumpAlloc /\ UNCHANGED <<regionVars, listVars, elfVars, userVars, kernVars, sysVars, bootVars, raceVars, lockVars, cpuVars>>
    \/ BumpDealloc /\ UNCHANGED <<regionVars, listVars, elfVars, userVars, kernVars, sysVars, bootVars, raceVars, lockVars, cpuVars>>

SpecHeap == InitHeap /\ [][NextHeap]_vars

InitMutex == IdleCpu /\ IdleBoot /\ IdleRace /\ IdleKern /\ IdleSys /\ InitMutexVars /\ IdleBump /\ IdleRegion /\ IdleElf /\ IdleUser

MutexRest == UNCHANGED <<bumpVars, regionVars, elfVars, userVars, kernVars, sysVars, bootVars, raceVars, cpuVars>>

NextMutex ==
    \/ MxCallInit /\ MutexRest
    \/ MxCallAlloc /\ MutexRest
    \/ MxCallDealloc /\ MutexRest
    \/ MxCallRealloc /\ MutexRest
    \/ MxFit /\ MutexRest
    \/ MxHead /\ MutexRest
    \/ MxAllocateWalk /\ MutexRest
    \/ MxPushWalk /\ MutexRest
    \/ MxReallocateWalk /\ MutexRest
    \/ MxDropFallback /\ MutexRest
    \/ MxFallbackAllocate /\ MutexRest
    \/ MxCopy /\ MutexRest
    \/ MxDrop /\ MutexRest

SpecMutex == InitMutex /\ [][NextMutex]_vars

InitCpu == IdleLock /\ IdleBoot /\ IdleRace /\ IdleKern /\ IdleSys /\ InitCpuVars /\ IdleBump /\ IdleRegion /\ IdleList /\ IdleElf /\ IdleUser

CpuRest == UNCHANGED <<bumpVars, regionVars, listVars, elfVars, userVars, kernVars, sysVars, bootVars, raceVars, lockVars>>

NextCpu ==
    \/ KernelSerialLock /\ CpuRest
    \/ KernelSerialInit /\ CpuRest
    \/ KernelHeapLog /\ CpuRest
    \/ KernelIdtLoad /\ CpuRest
    \/ KernelPicInit /\ CpuRest
    \/ KernelEnable /\ CpuRest
    \/ KernelPrint /\ CpuRest
    \/ KernelInt3 /\ CpuRest
    \/ KernelAccess /\ CpuRest
    \/ KernelPanic /\ CpuRest
    \/ KernelAfterInt3 /\ CpuRest
    \/ Breakpoint /\ CpuRest
    \/ PageFault /\ CpuRest
    \/ DoubleFault /\ CpuRest
    \/ TimerInterrupt /\ CpuRest
    \/ TimerFetchAdd /\ CpuRest
    \/ TimerEoi /\ CpuRest
    \/ HandlerLog /\ CpuRest
    \/ HandlerPanic /\ CpuRest
    \/ HandlerIret /\ CpuRest
    \/ PanicPrintln /\ CpuRest
    \/ PanicHlt /\ CpuRest
    \/ PrintFlags /\ CpuRest
    \/ PrintCli /\ CpuRest
    \/ PrintLock /\ CpuRest
    \/ PrintWrite /\ CpuRest
    \/ PrintUnlock /\ CpuRest
    \/ PrintSti /\ CpuRest

SpecCpu == InitCpu /\ [][NextCpu]_vars

\* the CPU goes on executing the code in progress; nothing makes the timer
\* tick
SpecFault == InitCpu /\ [][NextCpu]_vars /\ WF_vars(CpuStep /\ CpuRest)

(***************************************************************************)
(* Claims about the bump allocator                                         *)
(***************************************************************************)

\* C7: while the allocation count stays above zero, every successful alloc
\* with size > 0 returns an address that is a multiple of its alignment, is
\* not below the end of any block returned before it in the run (so the
\* addresses increase strictly and the blocks do not overlap), and its whole
\* block lies inside [start, end).
BumpRunSafe ==
    \A j \in DOMAIN bumpHist.run :
        LET blk == bumpHist.run[j]
        IN blk.size > 0 =>
              /\ blk.addr % blk.align = 0
              /\ bump.start <= blk.addr
              /\ blk.addr + blk.size <= bump.end
              /\ \A i \in DOMAIN bumpHist.run :
                    i < j =>
                       /\ bumpHist.run[i].addr + bumpHist.run[i].size <= blk.addr
                       /\ bumpHist.run[i].size > 0 => bumpHist.run[i].addr < blk.addr

\* C7 witness: a run of three non-empty blocks, one of them moved up by its
\* alignment
BumpRunSafeWitness ==
    /\ Len(bumpHist.run) = 3
    /\ \A j \in DOMAIN bumpHist.run : bumpHist.run[j].size > 0
    /\ \E j \in 2..3 :
          bumpHist.run[j].addr > bumpHist.run[j-1].addr + bumpHist.run[j-1].size

\* the address alloc(layout) returns right after init
BumpFirstAddr(layout) ==
    IF AlignUp(bump.start, layout.align) + layout.size < bump.end
    THEN AlignUp(bump.start, layout.align)
    ELSE Null

\* C8: once equally many successful allocs and deallocs have brought the
\* count back to zero, the next alloc(L) returns what the first alloc(L)
\* after init returned, which is align_up(start, L.align).
BumpGenerationRestart ==
    (bumpHist.last.op = "alloc" /\ bumpHist.last.countBefore = 0
        /\ bumpHist.last.cycledBefore)
    => /\ bumpHist.last.ret = BumpFirstAddr(bumpHist.last.layout)
       /\ \A k \in DOMAIN bumpHist.first :
             bumpHist.first[k].layout = bumpHist.last.layout
                => bumpHist.last.ret = bumpHist.first[k].ret

\* C8 witness: a successful alloc(L) of a later generation, with the same
\* layout as the first alloc after init, after the pointer had moved
BumpGenerationRestartWitness ==
    /\ bumpHist.last.op = "alloc"
    /\ bumpHist.last.countBefore = 0
    /\ bumpHist.last.cycledBefore
    /\ bumpHist.last.ret # Null
    /\ bumpHist.last.layout.size > 0
    /\ Len(bumpHist.first) = 1
    /\ bumpHist.first[1].layout = bumpHist.last.layout

\* C9: between sequential operations count is the number of live blocks,
\* start <= next <= end, and count = 0 implies next = start.
BumpCountInv ==
    /\ bump.count = Cardinality(bumpHist.live)
    /\ bump.start <= bump.next
    /\ bump.next <= bump.end
    /\ bump.count = 0 => bump.next = bump.start

\* C9 witness: the last of several live blocks has been deallocated, and a
\* refused alloc with other blocks live
BumpCountInvWitness ==
    \/ /\ bumpHist.last.op = "dealloc"
       /\ bump.count = 0
       /\ bumpHist.cycled
    \/ /\ bumpHist.last.op = "alloc"
       /\ bumpHist.last.ret = Null
       /\ bump.count = 2

(***************************************************************************)
(* Claims about the region frame allocator                                 *)
(***************************************************************************)

\* C10: every frame allocate_frame returns starts at a multiple of 4096 and
\* its 4 KiB lie inside [align_up(phys_start, 4096), phys_start +
\* page_count * 4096) of one CONVENTIONAL descriptor.
RegionFramesInside ==
    \A k \in DOMAIN rfaHist.returned :
        LET f == rfaHist.returned[k]
        IN /\ f % PageSize = 0
           /\ \E i \in DOMAIN memory_map :
                 /\ memory_map[i].ty = "CONVENTIONAL"
                 /\ AlignUp(memory_map[i].phys_start, PageSize) <= f
                 /\ f + PageSize <= DescEnd(memory_map[i])

\* C10 witness: a frame was returned from a descriptor whose phys_start is
\* not page aligned
RegionFramesInsideWitness ==
    \E k \in DOMAIN rfaHist.returned, i \in DOMAIN memory_map :
        /\ memory_map[i].ty = "CONVENTIONAL"
        /\ memory_map[i].phys_start % PageSize # 0
        /\ memory_map[i].phys_start <= rfaHist.returned[k]
        /\ rfaHist.returned[k] < DescEnd(memory_map[i])

\* the whole 4 KiB frames of a descriptor, in ascending address order
RECURSIVE WholeFrames(_, _)
WholeFrames(f, end) ==
    IF f + PageSize > end THEN <<>>
    ELSE <<f>> \o WholeFrames(f + PageSize, end)

\* the frames of the CONVENTIONAL descriptors of m[k..], in memory-map order
RECURSIVE FramesInMapOrder(_, _)
FramesInMapOrder(m, k) ==
    IF k > Len(m) THEN <<>>
    ELSE (IF m[k].ty = "CONVENTIONAL"
          THEN WholeFrames(AlignUp(m[k].phys_start, PageSize), DescEnd(m[k]))
          ELSE <<>>) \o FramesInMapOrder(m, k + 1)

\* C11: the frames returned so far are the first frames of the usable
\* descriptors taken in memory-map order and, inside a descriptor, in
\* ascending address order, none of them twice; a call returns None only
\* when all of them have been returned, and every later call returns None.
RegionWalksInOrder ==
    LET all == FramesInMapOrder(memory_map, 1)
        got == rfaHist.returned
    IN /\ Len(got) <= Len(all)
       /\ got = SubSeq(all, 1, Len(got))
       /\ \A i, j \in 1..Len(got) : i < j => got[i] # got[j]
       /\ rfaHist.calls > Len(got) => (~rfaHist.lastSome /\ got = all)

\* the scenario RESERVED 0x0 (4 pages), CONVENTIONAL 0x4000 (0 pages),
\* CONVENTIONAL 0x5000 (2 pages), allocated to exhaustion and called again
RegionWalksInOrderWitness ==
    /\ Len(memory_map) = 3
    /\ memory_map[1] = [ty |-> "RESERVED", phys_start |-> 0, page_count |-> 4]
    /\ memory_map[2] = [ty |-> "CONVENTIONAL", phys_start |-> 16384, page_count |-> 0]
    /\ memory_map[3] = [ty |-> "CONVENTIONAL", phys_start |-> 20480, page_count |-> 2]
    /\ rfaHist.returned = <<20480, 24576>>
    /\ rfaHist.calls = 4
    /\ ~rfaHist.lastSome

(***************************************************************************)
(* Claims about the free-list allocator                                    *)
(***************************************************************************)

\* the holes on the free list: every node after the head
Holes(nodes) == {nodes[k] : k \in 2..Len(nodes)}

\* C3: after any sequence of init, alloc, free and realloc the holes are in
\* strictly increasing address order, pairwise non-overlapping, and no hole
\* ends exactly where the next one starts.
ListSortedMerged ==
    \A i \in 2..(Len(ll.nodes) - 1) :
        /\ ll.nodes[i].addr < ll.nodes[i + 1].addr
        /\ EndAddr(ll.nodes[i]) <= ll.nodes[i + 1].addr
        /\ EndAddr(ll.nodes[i]) # ll.nodes[i + 1].addr

\* C3 witness: a realloc left at least two holes on the list
ListSortedMergedWitness ==
    /\ llHist.last.op = "realloc"
    /\ llHist.last.ret # Null
    /\ Len(ll.nodes) >= 3
    /\ Cardinality(llHist.given) >= 2

RECURSIVE SumNodeSizes(_, _)
SumNodeSizes(nodes, k) ==
    IF k > Len(nodes) THEN 0 ELSE nodes[k].size + SumNodeSizes(nodes, k + 1)

RECURSIVE SumRangeSizes(_)
SumRangeSizes(S) ==
    IF S = {} THEN 0
    ELSE LET r == CHOOSE r \in S : TRUE
         IN r.size + SumRangeSizes(S \ {r})

RECURSIVE SumExpandedSizes(_)
SumExpandedSizes(S) ==
    IF S = {} THEN 0
    ELSE LET blk == CHOOSE blk \in S : TRUE
         IN NodeLayoutFrom([size |-> blk.size, align |-> blk.align]).size
               + SumExpandedSizes(S \ {blk})

\* C4: the hole sizes plus the expanded sizes of the live allocations add up
\* to the bytes handed to init; so with nothing live the free size is the
\* initial heap size.
ListBytesConserved ==
    SumNodeSizes(ll.nodes, 2) + SumExpandedSizes(llHist.live)
        = SumRangeSizes(llHist.given)

\* C4 witness: after allocs, frees and a realloc everything has been freed
\* again, or two blocks are live after a realloc
ListBytesConservedWitness ==
    \/ /\ llHist.live = {}
       /\ llHist.last.op = "free"
       /\ Cardinality(llHist.given) >= 2
    \/ /\ Cardinality(llHist.live) = 2
       /\ llHist.last.op = "realloc"
       /\ llHist.last.ret # Null

\* C5: alloc(L) returning p, followed at once by free(p, L), leaves exactly
\* the holes that existed before the alloc.
ListAllocFreeRoundTrip ==
    llHist.last.op = "free_after_alloc"
        => Holes(ll.nodes) = Holes(llHist.last.before)

\* C5 witness: the round trip ran on a list of two holes while a block
\* was live
ListAllocFreeRoundTripWitness ==
    /\ llHist.last.op = "free_after_alloc"
    /\ Len(llHist.last.before) >= 3
    /\ llHist.live # {}

\* a hole in which the expanded layout fits with residues that are zero or
\* at least a node
Qualifies(h, layout) ==
    LET s == AlignUp(h.addr, layout.align)
        lead == s - h.addr
        trail == EndAddr(h) - (s + layout.size)
    IN /\ trail >= 0
       /\ lead = 0 \/ lead >= NodeSize
       /\ trail = 0 \/ trail >= NodeSize

QualifyingHoles(nodes, layout) == {h \in Holes(nodes) : Qualifies(h, layout)}

\* C6: alloc is first fit: it returns align_up(h.addr, align) for the
\* lowest-addressed qualifying hole h, replaces h by its non-empty residues
\* and changes no other hole; it returns null, with the list unchanged, iff
\* no hole qualifies.
ListFirstFit ==
    llHist.last.op = "alloc" =>
        LET pre == llHist.last.before
            layout == NodeLayoutFrom(llHist.last.layout)
            q == QualifyingHoles(pre, layout)
        IN IF q = {}
           THEN llHist.last.ret = Null /\ ll.nodes = pre
           ELSE LET h == CHOOSE h \in q : \A g \in q : h.addr <= g.addr
                    s == AlignUp(h.addr, layout.align)
                    residues ==
                        {r \in {[addr |-> h.addr, size |-> s - h.addr],
                                [addr |-> s + layout.size,
                                 size |-> EndAddr(h) - (s + layout.size)]} :
                            r.size > 0}
                IN /\ llHist.last.ret = s
                   /\ llHist.last.ret # Null
                   /\ Holes(ll.nodes) = (Holes(pre) \ {h}) \cup residues
                   /\ ll.nodes[1] = pre[1]
                   /\ Len(ll.nodes) = Len(pre) - 1 + Cardinality(residues)

\* C6 witness: an alloc that skipped a hole too small for it, and an alloc
\* that had two qualifying holes to choose from
ListFirstFitWitness ==
    /\ llHist.last.op = "alloc"
    /\ llHist.last.ret # Null
    /\ LET pre == llHist.last.before
           layout == NodeLayoutFrom(llHist.last.layout)
       IN /\ Len(pre) >= 3
          /\ ~Qualifies(pre[2], layout)

ListFirstFitWitnessTwo ==
    /\ llHist.last.op = "alloc"
    /\ Cardinality(QualifyingHoles(llHist.last.before,
                                   NodeLayoutFrom(llHist.last.layout))) >= 2

(***************************************************************************)
(* Claims about the ELF loader                                             *)
(***************************************************************************)

PagesBetween(a, b) ==
    {PageOf(a) + k * PageSize : k \in 0..((PageOf(b) - PageOf(a)) \div PageSize)}

\* the PT_LOAD program headers with a non-empty memory image
LoadedHeaders(e) ==
    {k \in 1..Len(e.headers) :
        e.headers[k].type = "Load" /\ e.headers[k].mem_size > 0}

SegmentStart(e, k) == e.headers[k].virtual_addr + ElfOffset(e)
SegmentEnd(e, k) == SegmentStart(e, k) + e.headers[k].mem_size - 1

\* the pages overlapping [base + vaddr, base + vaddr + mem_size)
SegmentPages(e, k) == PagesBetween(SegmentStart(e, k), SegmentEnd(e, k))

\* the pages from the one holding the last file byte to the last page
TailPages(e, k) ==
    PagesBetween(Max(SegmentStart(e, k),
                     SegmentStart(e, k) + e.headers[k].file_size - 1),
                 SegmentEnd(e, k))

\* the byte offsets of a segment's memory image
ReadOffsets(e, k) == 0..(e.headers[k].mem_size - 1)

\* what a read of virtual address v through the page table returns
ReadThrough(s, v) ==
    IF PageOf(v) \in DOMAIN s.map
    THEN ByteAt(s, TranslateAddr(s.map, v))
    ELSE [k |-> "unmapped", off |-> 0]

FramesOf(seq) == {seq[i] : i \in 1..Len(seq)}

SegmentContentsRight(s, e, k) ==
    \A i \in ReadOffsets(e, k) :
        LET b == ReadThrough(s, SegmentStart(e, k) + i) IN
        \/ b.k = "reloc"
        \/ /\ i < e.headers[k].file_size
           /\ b = [k |-> "file", off |-> e.headers[k].offset + i]
        \/ /\ i >= e.headers[k].file_size
           /\ b.k = "zero"

SegmentTailFresh(s, e, k) ==
    e.headers[k].mem_size > e.headers[k].file_size =>
        \A p \in TailPages(e, k) :
            /\ p \in DOMAIN s.map
            /\ s.map[p].frame \in FramesOf(s.fresh)
            /\ ~InImage(s.map[p].frame)

SetUp == mmu.phase = "set up" /\ ElfOk(mmu)

\* C1: after a successful setup_mappings, for every PT_LOAD segment with
\* mem_size > 0 exactly the pages overlapping [base + vaddr, base + vaddr +
\* mem_size) are mapped; the first file_size bytes read through the mapping
\* are the file's bytes (apart from the words a relocation rewrote) and the
\* remaining bytes are zero; when mem_size > file_size every page from the
\* one holding the last file byte to the last page is backed by a fresh
\* frame outside the ELF image.
ElfSegmentsLoaded ==
    SetUp =>
        /\ (DOMAIN mmu.map) \ (DOMAIN mmu.boot)
             = UNION {SegmentPages(elf, k) : k \in LoadedHeaders(elf)}
        /\ \A k \in LoadedHeaders(elf) :
              /\ SegmentContentsRight(mmu, elf, k)
              /\ SegmentTailFresh(mmu, elf, k)

\* C2: setup_mappings followed by remove_mappings leaves no page of any
\* PT_LOAD segment mapped, hands the deallocator exactly the fresh segment
\* frames setup_mappings took, and only ever unmaps pages that
\* setup_mappings mapped (so no unmap fails).
ElfRemoveUndoesSetup ==
    mmu.phase = "removed" =>
        /\ ElfOk(mmu)
        /\ \A k \in LoadedHeaders(elf) :
              SegmentPages(elf, k) \cap DOMAIN mmu.map = {}
        /\ mmu.map = mmu.boot
        /\ Len(mmu.freed) = Len(mmu.fresh)
        /\ FramesOf(mmu.freed) = FramesOf(mmu.fresh)
        /\ FramesOf(mmu.tried) \subseteq FramesOf(mmu.mapped)
        /\ Len(mmu.tried) = Len(mmu.mapped)

ElfRemoveUndoesSetupWitness ==
    /\ mmu.phase = "removed"
    /\ Len(mmu.fresh) >= 2
    /\ Len(mmu.mapped) > Len(mmu.fresh)
    /\ Len(mmu.freed) = Len(mmu.fresh)
    /\ Cardinality(LoadedHeaders(elf)) = 2

(***************************************************************************)
(* Claims about the user frame allocator                                   *)
(***************************************************************************)

RangeFrames(r) ==
    {r.start + k * PageSize : k \in 0..((r.end - r.start) \div PageSize)}

PoolFrames(free) == UNION {RangeFrames(free[i]) : i \in 1..Len(free)}

\* the pool after its last range lost its highest frame
PoolWithoutTop(free) ==
    LET n == Len(free) IN
    IF free[n].start = free[n].end THEN SubSeq(free, 1, n - 1)
    ELSE [free EXCEPT ![n].end = @ - PageSize]

\* C12: while the pool holds a frame, allocate_frame returns the highest
\* frame of the most recently pushed range, removes it from the pool
\* (dropping the range when it becomes empty) and leaves the backing
\* allocator untouched.
UserPoolFirst ==
    (ufaHist.last.op = "alloc" /\ ufaHist.last.freeBefore # <<>>) =>
        LET before == ufaHist.last.freeBefore IN
        /\ ufaHist.last.some
        /\ ufaHist.last.ret = before[Len(before)].end
        /\ ufa.free = PoolWithoutTop(before)
        /\ rfa = ufaHist.last.backingBefore

\* C13 as stated: a frame that allocate_frame returns while the pool holds
\* frames is the most recently deallocated frame that has not been handed
\* out again.
UserLifo ==
    (/\ ufaHist.last.op = "alloc"
     /\ ufaHist.last.some
     /\ ufaHist.last.orderBefore # <<>>) =>
        ufaHist.last.ret
          = ufaHist.last.orderBefore[Len(ufaHist.last.orderBefore)]

\* C13: the pool is LIFO over ranges, not over frames.  On a non-empty
\* pool allocate_frame returns the highest frame of the most recently pushed
\* range (and panics when that frame is frame 0); that range holds the most
\* recently deallocated frame, which is the frame returned unless it lies
\* below the top of the range (it was deallocated after the frame one above
\* it).
UserRangeLifo ==
    (ufaHist.last.op = "alloc" /\ ufaHist.last.freeBefore # <<>>) =>
        LET before == ufaHist.last.freeBefore
            top == before[Len(before)]
            recent == ufaHist.last.orderBefore[Len(ufaHist.last.orderBefore)]
        IN /\ recent \in RangeFrames(top)
           /\ IF top.end = 0
              THEN ufa.panicked /\ ~ufaHist.last.some
              ELSE /\ ufaHist.last.some
                   /\ ufaHist.last.ret = top.end
                   /\ ufaHist.last.ret # recent =>
                         /\ recent < ufaHist.last.ret
                         /\ \E i \in 1..(Len(ufaHist.last.orderBefore) - 1) :
                               ufaHist.last.orderBefore[i] = recent + PageSize

\* frames 0x2000 then 0x1000 were deallocated; allocate_frame returned 0x2000
UserRangeLifoWitness ==
    /\ ufaHist.last.op = "alloc"
    /\ ufaHist.last.some
    /\ ufaHist.last.orderBefore = <<8192, 4096>>
    /\ ufaHist.last.ret = 8192
    /\ ufa.free = <<[start |-> 4096, end |-> 4096]>>

\* C14: the stored ranges are non-empty and pairwise disjoint, their union
\* is the set of frames deallocated and not yet allocated again, no frame is
\* both pooled and in use, and a frame that allocate_frame returns comes
\* from the pool or from the backing allocator and is not already in use.
UserPoolExact ==
    /\ \A i \in 1..Len(ufa.free) : ufa.free[i].start <= ufa.free[i].end
    /\ \A i, j \in 1..Len(ufa.free) :
          i < j => RangeFrames(ufa.free[i]) \cap RangeFrames(ufa.free[j]) = {}
    /\ PoolFrames(ufa.free) = FramesOf(ufaHist.order)
    /\ Cardinality(PoolFrames(ufa.free)) = Len(ufaHist.order)
    /\ PoolFrames(ufa.free) \cap ufaHist.out = {}
    /\ (ufaHist.last.op = "alloc" /\ ufaHist.last.some) =>
          /\ ~ufaHist.last.again
          /\ \/ /\ ufaHist.last.ret \in FramesOf(ufaHist.last.orderBefore)
                /\ rfa = ufaHist.last.backingBefore
             \/ /\ ufaHist.last.orderBefore = <<>>
                /\ rfa # ufaHist.last.backingBefore

\* a pool of two ranges, one of them merged, after a frame came out of it
UserPoolExactWitness ==
    /\ Len(ufa.free) = 2
    /\ ufa.free[1].start < ufa.free[1].end
    /\ ufaHist.last.op = "alloc"
    /\ ufaHist.last.some
    /\ Len(ufaHist.last.freeBefore) = 3
    /\ ufaHist.out # {}

(***************************************************************************)
(* Claims about the kernel's frame traffic                                 *)
(***************************************************************************)

\* the frames of a range of PhysFrame::range (end exclusive)
RangeFramesExclusive(fr) ==
    IF FramesEmpty(fr) THEN {}
    ELSE {fr.start + k * PageSize : k \in 0..(((fr.end - fr.start) \div PageSize) - 1)}

\* frames the region allocator has not handed out yet
RegionNotYetAllocated ==
    RangeFramesExclusive(rfa.frames)
      \cup UNION {RangeFramesExclusive(RegionToFrames(memory_map[i])) :
                    i \in {j \in rfa.regions..Len(memory_map) : Usable(memory_map[j])}}

HeapPageSet == {PageOf(HeapStart) + k * PageSize : k \in 0..(HeapPages - 1)}

\* frames behind the mapped pages of the heap
HeapBacking == {mmu.map[p].frame : p \in HeapPageSet \cap DOMAIN mmu.map}

\* pages mapped since boot, outside the heap, onto a frame that is not part
\* of the ELF image: the zero-filled tails of the segments and the stack
FreshPages ==
    {p \in DOMAIN mmu.map :
        /\ p \notin DOMAIN mmu.boot
        /\ p \notin HeapPageSet
        /\ ~InImage(mmu.map[p].frame)}

FreshTargets == {mmu.map[p].frame : p \in FreshPages}

\* C15: at any moment the frames the region allocator has not handed out,
\* the frames of the user allocator's free pool, the frames behind the
\* freshly backed pages (segment tails, user stack) and the frames behind
\* the heap are pairwise disjoint.
FrameOwnersDisjoint ==
    /\ RegionNotYetAllocated \cap PoolFrames(ufa.free) = {}
    /\ RegionNotYetAllocated \cap FreshTargets = {}
    /\ RegionNotYetAllocated \cap HeapBacking = {}
    /\ PoolFrames(ufa.free) \cap FreshTargets = {}
    /\ PoolFrames(ufa.free) \cap HeapBacking = {}
    /\ FreshTargets \cap HeapBacking = {}

\* the second setup_mappings has succeeded on frames that the first
\* remove_mappings deallocated, with the heap and the stack in place
FrameOwnersDisjointWitness ==
    /\ kern.setups = 2
    /\ mmu.phase = "set up"
    /\ ElfOk(mmu)
    /\ FreshTargets \cap FramesOf(mmu.freed) # {}
    /\ Len(kern.heap) = HeapPages
    /\ kern.stack # <<>>
    /\ HeapBacking = FramesOf(kern.heap)
    /\ RegionNotYetAllocated # {}

(***************************************************************************)
(* Claims about the syscall dispatch loop                                  *)
(***************************************************************************)

\* a syscall has been handled; sysLast is the state it found
AfterCall(codes) == sys.handled > 0 /\ sysLast.call.code \in codes

KnownCodes == {ExitCode, LogCode, FrameBufferCode}

\* C16: whatever the program issues, a syscall other than Exit is followed
\* by a return to user mode with rax = 0 or rax = 1, the kernel does not
\* panic once the program runs, and spawn_user is returned to only by Exit.
SyscallsAlwaysReturn ==
    /\ sys.mode = "panicked" => sys.handled = 0
    /\ sys.mode = "returned" => AfterCall({ExitCode})
    /\ (sys.handled > 0 /\ sysLast.call.code # ExitCode) =>
          /\ sys.mode = "user"
          /\ sys.sysrets = sysLast.sysrets + 1
          /\ sys.rax \in {0, 1}

\* C17: Exit(code) logs the code, is followed by no sysretq, returns to
\* spawn_user once, which enables interrupts and returns; and a program
\* that issues Log and then Exit gets there.
ExitEndsLoop ==
    AfterCall({ExitCode}) =>
        /\ sys.mode = "returned"
        /\ sys.returns = 1
        /\ sys.sysrets = sysLast.sysrets
        /\ sys.log = sysLast.log \o
              <<LogLine("info", "User exited with code", <<sysLast.call.rsi>>),
                LogLine("info", "Back in kernelspace", <<>>)>>
        /\ sys.iflag
        /\ sys.enables = 1
        /\ sys.pc = Len(sys.program) + 1

LogThenExit == <<LogCall(<<72, 105>>), ExitCall(7)>>

Utf8Buffers == { <<72, 105>>, <<195, 169>> }

\* C18: Log returns 0 and logs the message when the buffer is valid UTF-8;
\* it returns 1 and logs a warning that holds no byte of the buffer when it
\* is not; either way the program is resumed.
LogChecksUtf8 ==
    AfterCall({LogCode}) =>
        /\ sys.mode = "user"
        /\ sys.sysrets = sysLast.sysrets + 1
        /\ Len(sys.log) = Len(sysLast.log) + 1
        /\ SubSeq(sys.log, 1, Len(sysLast.log)) = sysLast.log
        /\ IF sysLast.call.bytes \in Utf8Buffers
           THEN /\ sys.rax = 0
                /\ sys.log[Len(sys.log)]
                      = LogLine("info", "User message: ", sysLast.call.bytes)
           ELSE /\ sys.rax = 1
                /\ sys.log[Len(sys.log)].level = "warn"
                /\ sys.log[Len(sys.log)].arg = <<>>

\* "Hi" was logged, then the buffer 'H', 0xFF was refused
LogChecksUtf8Witness ==
    /\ AfterCall({LogCode})
    /\ sysLast.call.bytes = <<72, 255>>
    /\ sys.rax = 1
    /\ sys.mode = "user"
    /\ Len(sys.log) >= 2
    /\ sys.log[Len(sys.log) - 1] = LogLine("info", "User message: ", <<72, 105>>)

\* the frames that overlap the frame buffer, lowest first
FbFrames(fb) ==
    [i \in 1..((PageOf(fb.phys + (fb.size - 1)) - PageOf(fb.phys)) \div PageSize + 1)
        |-> PageOf(fb.phys) + (i - 1) * PageSize]

\* C19: FrameBuffer returns 1, maps nothing and writes nothing when there
\* is no frame buffer or its format is neither RGB nor BGR; otherwise it
\* maps the frames of the frame buffer at consecutive pages from 0x7000000,
\* present, writable and user accessible, writes a descriptor whose ptr is
\* 0x7000000 plus the offset of the frame buffer in its first frame, and
\* returns 0.
FrameBufferMapped ==
    AfterCall({FrameBufferCode}) =>
        IF ~sys.fb.some \/ sys.fb.format \notin {"Rgb", "Bgr"}
        THEN /\ sys.mode = "user"
             /\ sys.rax = 1
             /\ mmu.map = sysLast.map
             /\ sys.written = sysLast.written
        ELSE /\ sys.mode = "user"
             /\ sys.rax = 0
             /\ \A i \in DOMAIN FbFrames(sys.fb) :
                   /\ UserFbBase + (i - 1) * PageSize \in DOMAIN mmu.map
                   /\ mmu.map[UserFbBase + (i - 1) * PageSize]
                         = [frame |-> FbFrames(sys.fb)[i],
                            flags |-> {"PRESENT", "WRITABLE", "USER_ACCESSIBLE"}]
             /\ sys.written = Append(sysLast.written,
                   [at |-> sysLast.call.rsi,
                    ptr |-> UserFbBase + (sys.fb.phys % PageSize),
                    size |-> sys.fb.size, shape |-> sys.fb.shape,
                    stride |-> sys.fb.stride, format |-> sys.fb.format])

\* C20: a syscall with an unknown code returns 1, leaves the page table,
\* the frame allocators and the user's memory as they were, adds one line
\* to the log, and the program is resumed.
UnknownCodeIgnored ==
    (sys.handled > 0 /\ sysLast.call.code \notin KnownCodes) =>
        /\ sys.mode = "user"
        /\ sys.rax = 1
        /\ sys.sysrets = sysLast.sysrets + 1
        /\ mmu.map = sysLast.map
        /\ mmu.tables = sysLast.tables
        /\ ufa = sysLast.user
        /\ rfa = sysLast.backing
        /\ kern = sysLast.kern
        /\ sys.written = sysLast.written
        /\ Len(sys.log) = Len(sysLast.log) + 1
        /\ SubSeq(sys.log, 1, Len(sysLast.log)) = sysLast.log
        /\ sys.pc = sys.handled + 1

\* an unknown code was issued after the frame buffer had been mapped
UnknownCodeIgnoredWitness ==
    /\ sys.handled = 2
    /\ sysLast.call.code = 3
    /\ sys.rax = 1
    /\ sys.mode = "user"
    /\ UserFbBase \in DOMAIN mmu.map
    /\ sys.log[Len(sys.log)] = LogLine("warn", "Ignoring unknown syscall", <<3>>)

(***************************************************************************)
(* Claims: the UEFI boot stub                                              *)
(***************************************************************************)

\* positions of `trace` at which `service` was called
CallsOf(t, service) == {i \in 1..Len(t) : t[i] = service}

\* the stub has jumped to the kernel
InKernel == boot.pc \in {"kernel", "walked"}

\* C21: on the path that reaches the kernel ExitBootServices is called
\* exactly once; the page-table allocation, the kernel's mappings, the
\* identity mappings, the stack and the two pool allocations all come
\* before it, the BootInfo write and the jump come after it, in that order,
\* and on every path no boot service is called after ExitBootServices.
ExitBootServicesOnce ==
    LET t == boot.trace
        exits == CallsOf(t, "ExitBootServices")
    IN /\ \A i \in exits : \A j \in (i + 1)..Len(t) : t[j] \notin BootServices
       /\ InKernel =>
            /\ Cardinality(exits) = 1
            /\ \A i \in exits :
                  /\ Cardinality(CallsOf(SubSeq(t, 1, i), "AllocatePool")) = 2
                  /\ Cardinality(CallsOf(SubSeq(t, 1, i), "AllocatePages")) >= 2
                  /\ CallsOf(SubSeq(t, 1, i), "map_to") # {}
                  /\ CallsOf(SubSeq(t, 1, i), "identity_map") # {}
                  /\ SubSeq(t, i + 1, Len(t)) = <<"WriteBootInfo", "JumpToKernel">>

ExitBootServicesOnceWitness ==
    /\ boot.pc = "walked"
    /\ Cardinality(CallsOf(boot.trace, "AllocatePages")) > 2

\* where the firmware put the descriptors of its final memory map, as the
\* kernel addresses them
FirmwareDescriptors(s) ==
    [i \in 1..s.fw.descriptors |-> Offset(s.mmap + (i - 1) * s.fw.entry_size)]

\* C22: the MemoryMap written into BootInfo points at the map buffer in the
\* offset window, its stride is the distance between the first two
\* descriptors (the nominal size when there is only one) and its count is
\* the number of descriptors of the final memory map, so the kernel's walk
\* yields every descriptor once, in order, and then ends.
MemoryMapComplete ==
    /\ boot.info.written =>
          /\ boot.info.memory_map.ptr = Offset(boot.mmap)
          /\ boot.info.memory_map.size =
                (IF boot.fw.descriptors >= 2 THEN boot.fw.entry_size
                 ELSE DescriptorSize)
          /\ boot.info.memory_map.len = boot.fw.descriptors
    /\ boot.pc = "walked" => boot.yielded = FirmwareDescriptors(boot)

\* C23: the kernel is entered with RSP at the top of the 16-page stack and
\* RDI at the BootInfo, both in the offset window.
KernelEntryRegisters ==
    InKernel =>
        /\ boot.cpu.rsp = Offset(boot.fw.stack_base + StackPages * PageSize)
        /\ boot.cpu.rdi = Offset(boot.boot_info)
        /\ boot.boot_info = BootInfoAddr

\* the stub has ended: the machine is off, efi_main has returned, or the
\* kernel runs
StubEnded == boot.pc \in {"off", "returned", "kernel", "walked"}

\* C25: once a firmware call, the ELF parse or a mapping has failed the
\* stub never jumps to the kernel, and it ends by logging the error and
\* calling the firmware's shutdown.
FailureShutsDown ==
    boot.failures # <<>> =>
        /\ ~InKernel
        /\ boot.cpu.rip = "stub"
        /\ StubEnded =>
              /\ boot.pc = "off"
              /\ boot.trace[Len(boot.trace)] = "ResetSystem"
              /\ \E i \in 1..Len(boot.log) : boot.log[i][1] = "error"

(***************************************************************************)
(* Claims: the end of spawn_user                                           *)
(***************************************************************************)

\* C26: once spawn_user has returned after an Exit, no page of a PT_LOAD
\* segment of the user program is mapped any more and the frames that
\* backed the fresh pages have been handed back to the frame allocator.
SpawnUserTearsDown ==
    sys.mode = "returned" =>
        /\ \A k \in LoadedHeaders(elf) :
              SegmentPages(elf, k) \cap DOMAIN mmu.map = {}
        /\ FramesOf(mmu.fresh) \subseteq FramesOf(mmu.freed)

(***************************************************************************)
(* Claims: the bump allocator shared by threads                            *)
(***************************************************************************)

BlocksOverlap(x, y) == x.addr < y.addr + y.size /\ y.addr < x.addr + x.size

\* C27: whatever the interleaving of alloc and dealloc calls, two blocks
\* that are live at the same time do not overlap, and next is never reset
\* to start while a block is live.
RaceLiveDisjoint ==
    /\ \A x \in race.live : \A y \in race.live :
          x.id # y.id => ~BlocksOverlap(x, y)
    /\ ~race.reset_live


\* thread t takes the step that leaves position pc
Leaves(t, pc) == race.th[t].pc = pc /\ race'.th[t].pc # pc

RaceAllocSteps(t, reset) ==
    /\ (race.th[t].pc = "idle" /\ race'.th[t].calls # race.th[t].calls
        /\ race'.th[t].op = "alloc") =>
          IF race.b.start = 0
          THEN /\ race'.b = race.b
               /\ race'.th[t].pc = "idle"
               /\ race'.th[t].ret = Null
          ELSE /\ race'.b = [race.b EXCEPT !.count = @ + 1]
               /\ race'.th[t].pc = "fetch_update"
    /\ Leaves(t, "fetch_update") =>
          LET lay == race.th[t].layout
              new_next == AlignUp(race.b.next, lay.align) + lay.size
          IN IF new_next < race.b.end
             THEN /\ race'.b = [race.b EXCEPT !.next = new_next]
                  /\ race'.th[t].ret = AlignUp(race.b.next, lay.align)
                  /\ race'.th[t].pc = "idle"
             ELSE /\ race'.b = race.b
                  /\ race'.th[t].ret = Null
                  /\ race'.th[t].pc = "load"
    /\ (race.th[t].op = "alloc" /\ Leaves(t, "load")) =>
          /\ race'.b = race.b
          /\ race'.th[t].ret = Null
    /\ (race.th[t].op = "alloc" /\ Leaves(t, "fetch_sub")) =>
          /\ race'.b = [race.b EXCEPT !.count = @ - 1]
          /\ race'.th[t].ret = Null
    /\ (race.th[t].op = "alloc" /\ Leaves(t, "cas")) =>
          /\ race'.th[t].ret = Null
          /\ race'.th[t].pc = "idle"
          /\ reset

\* C29 as stated: an alloc succeeds iff align_up(next, align) + size is
\* strictly below end; a refused alloc returns null, takes its increment of
\* count back and never changes next; an alloc on an allocator that was
\* never initialised returns null and changes nothing.
RefusedAllocLeavesNext ==
    [][\A t \in Threads : RaceAllocSteps(t, race'.b = race.b)]_vars

\* C29, amended: as above, except that a refused alloc whose decrement
\* takes count from 1 to 0 ends with the reset of count_decrease: next
\* becomes start if it still holds the value the call observed before its
\* decrement, and is left alone otherwise.
RefusedAllocResets ==
    [][\A t \in Threads :
          RaceAllocSteps(t, race'.b = [race.b EXCEPT
                                         !.next = IF @ = race.th[t].next
                                                  THEN race.b.start ELSE @])]_vars

\* a refused alloc has moved next back to start
RefusedAllocResetsWitness ==
    \E t \in Threads :
       /\ race.th[t].op = "alloc"
       /\ race.th[t].pc = "idle"
       /\ race.th[t].ret = Null
       /\ race.th[t].reset = "ok"
       /\ race.th[t].next # race.b.start
       /\ race.b.next = race.b.start
       /\ race.b.count = 0

(***************************************************************************)
(* Claims: initialisation of the bump allocator                            *)
(***************************************************************************)

\* C30: init on a heap with count > 0 fails its assertion and leaves start,
\* next, end and count as they were; init with count == 0 sets start and
\* next to heap_start and end to heap_start + heap_size; nothing else ever
\* moves start or end.
InitOnlyWhenEmpty ==
    [][/\ (bump'.panicked /\ ~bump.panicked) =>
             /\ bump.count > 0
             /\ bump' = [bump EXCEPT !.panicked = TRUE]
       /\ (bump'.start # bump.start \/ bump'.end # bump.end) =>
             /\ bump.count = 0
             /\ bumpHist'.last.op = "init"
       /\ (bumpHist'.last.op = "init" /\ bump' # bump) =>
             /\ bump.count = 0
             /\ bump'.count = 0
             /\ ~bump'.panicked
             /\ \E hs \in BumpHeapStarts, hz \in BumpHeapSizes :
                   /\ bump'.start = hs
                   /\ bump'.next = hs
                   /\ bump'.end = hs + hz]_vars

\* an init on a heap that holds blocks has been rejected
InitOnlyWhenEmptyWitness ==
    /\ bump.panicked
    /\ bump.count > 0
    /\ bump.start # 0
    /\ bump.next # bump.start

(***************************************************************************)
(* Claims: the kernel heap                                                 *)
(***************************************************************************)

\* the pages of HEAP_START..HEAP_START + HEAP_SIZE
HeapRange == {HEAP_START + k * PageSize : k \in 0..(HEAP_SIZE \div PageSize - 1)}

\* pages mapped since the kernel was entered
MappedSinceBoot == DOMAIN mmu.map \ DOMAIN mmu.boot

\* every byte of every live block lies in a page that is present and writable
LiveBlocksUsable ==
    \A i \in bumpHist.live :
       \A a \in {bumpHist.run[i].addr,
                 bumpHist.run[i].addr + Max(bumpHist.run[i].size, 1) - 1} :
          /\ PageOf(a) \in DOMAIN mmu.map
          /\ {"PRESENT", "WRITABLE"} \subseteq mmu.map[PageOf(a)].flags

\* what allocator::init leaves behind on the pages `range`: each page is
\* present and writable on a frame of its own, taken from the frame
\* allocator by this call and used for nothing else
HeapBacked(range) ==
    LET frames == {mmu.map[p].frame : p \in range} IN
    /\ MappedSinceBoot = range
    /\ \A p \in range : mmu.map[p].flags = {"PRESENT", "WRITABLE"}
    /\ Cardinality(frames) = Cardinality(range)
    /\ frames = FramesOf(kern.heap)
    /\ frames \cap {mmu.boot[q].frame : q \in DOMAIN mmu.boot} = {}
    /\ frames \cap FramesOf(mmu.tableFrames) = {}
    /\ frames \cap FramesOf(mmu.pool) = {}

\* C24 as stated: the heap is the 4 MiB from 0x1_0000_0000 (page number
\* 0x100000, 1024 pages); init maps each of its pages, PRESENT|WRITABLE, to
\* a fresh frame of its own before the allocator is initialised on the
\* same range, and what the allocator returns is usable.
HeapRangeAsStated ==
    /\ bump.start # 0 => kern.phase = "up"
    /\ kern.phase = "up" =>
          /\ bump.start \div PageSize = 1048576
          /\ bump.start % PageSize = 0
          /\ bump.end - bump.start = 4194304
          /\ HeapBacked({p \in DOMAIN mmu.map :
                           /\ p \div PageSize >= 1048576
                           /\ p \div PageSize < 1048576 + 1024})
          /\ Cardinality(MappedSinceBoot) = 1024
          /\ LiveBlocksUsable

\* C24, amended: the heap is the 2 MiB from 0x4000_0000 (0o1_000_000_0000
\* for 0o1_000_0000 bytes, 512 pages); the rest as stated.
HeapRangeMapped ==
    /\ bump.start # 0 => kern.phase = "up"
    /\ kern.phase = "up" =>
          /\ bump.start = 1073741824
          /\ bump.end - bump.start = 2097152
          /\ bump.start = HEAP_START
          /\ bump.end = HEAP_START + HEAP_SIZE
          /\ HeapBacked(HeapRange)
          /\ Cardinality(MappedSinceBoot) = 512
          /\ LiveBlocksUsable

\* the heap is up and holds two blocks
HeapRangeMappedWitness ==
    /\ kern.phase = "up"
    /\ Cardinality(bumpHist.live) = 2
    /\ Len(kern.heap) = 512
    /\ HEAP_START + HEAP_SIZE - PageSize \in DOMAIN mmu.map

(***************************************************************************)
(* Claims about the free-list allocator's realloc                          *)
(***************************************************************************)

\* the hole that starts exactly at `end`, NoHole when there is none
FollowingHole(nodes, end) ==
    IF \E h \in Holes(nodes) : h.addr = end
    THEN CHOOSE h \in Holes(nodes) : h.addr = end
    ELSE NoHole

\* the expanded layout a realloc call asks for
NewLayout(c) == NodeLayoutFrom([size |-> c.new_size, align |-> c.layout.align])

\* what is left of the block and the hole right behind it once the new
\* expanded size is taken
ReallocResidue(nodes, c) ==
    NodeLayoutFrom(c.layout).size
        + FollowingHole(nodes, c.addr + NodeLayoutFrom(c.layout).size).size
        - NewLayout(c).size

\* a step of realloc: the call that ran is in llCall'
ReallocStep == llCall'.op = "realloc"

\* C31: realloc returns the original address, without copying, whenever the
\* block together with a hole starting exactly at its end can hold the new
\* expanded size with a residue that is zero or at least a node (every
\* shrink included); the hole behind the block is unlinked and the residue
\* is published in its place.
ReallocInPlace ==
    [][ReallocStep =>
        LET c == llCall'
            follow == FollowingHole(ll.nodes,
                                    c.addr + NodeLayoutFrom(c.layout).size)
            residue == ReallocResidue(ll.nodes, c)
            tail == [addr |-> c.addr + NewLayout(c).size, size |-> residue]
        IN (residue = 0 \/ residue >= NodeSize) =>
              /\ ~ll'.panicked
              /\ llHist'.last.ret = c.addr
              /\ Holes(ll'.nodes) =
                    (Holes(ll.nodes) \ {follow}) \cup {h \in {tail} : h.size > 0}
              /\ \A k \in 1..Min(Len(c.words), Len(llMem[c.addr])) :
                    c.words[k] = llMem[c.addr][k]]_vars

\* the residue lets the call be satisfied where the block is
InPlaceFits(nodes, c) ==
    ReallocResidue(nodes, c) = 0 \/ ReallocResidue(nodes, c) >= NodeSize

\* C32: when realloc cannot be satisfied in place it returns the block that
\* alloc of the new layout gives, holding the first min(old size, new size)
\* bytes of the old block, and the old block is freed; when that alloc fails
\* it returns null and the old block, its contents and the free list stay as
\* they were.
ReallocMoves ==
    [][ReallocStep /\ ~InPlaceFits(ll.nodes, llCall') =>
        LET c == llCall'
            old == [addr |-> c.addr, size |-> c.layout.size,
                    align |-> c.layout.align]
            a == Allocate(ll.nodes, NewLayout(c))
        IN /\ ~ll'.panicked
           /\ llHist'.last.ret = a.ret
           /\ IF a.ret = Null
              THEN /\ ll'.nodes = ll.nodes
                   /\ llHist'.live = llHist.live
                   /\ llMem' = llMem
              ELSE /\ a.ret # c.addr
                   /\ \A k \in 1..Words(Min(c.layout.size, c.new_size)) :
                         c.words[k] = llMem[c.addr][k]
                   /\ llHist'.live =
                         (llHist.live \ {old}) \cup
                            {[addr |-> a.ret, size |-> c.new_size,
                              align |-> c.layout.align]}
                   /\ ll'.nodes =
                         Deallocate(a.nodes, c.addr, NodeLayoutFrom(c.layout)).nodes]_vars

\* C32 witness: a realloc to a larger size moved a block of several words
\* while another block was live
ReallocMovesWitness ==
    /\ llCall.op = "realloc"
    /\ llHist.last.ret # Null
    /\ llHist.last.ret # llCall.addr
    /\ llCall.new_size > llCall.layout.size
    /\ llCall.layout.size >= 24
    /\ Cardinality(llHist.live) = 2

(***************************************************************************)
(* Claims about the heap mutex                                             *)
(***************************************************************************)

\* the frames of the call in progress
Frames == {mx.stack[k] : k \in DOMAIN mx.stack}

\* C33: the free list is walked only by a frame that holds the guard of the
\* heap mutex; reallocate has dropped its guard before it calls allocate or
\* deallocate for the fallback, so no frame ever waits for the mutex while a
\* frame below it holds it; and every call returns with the mutex released.
MutexDiscipline ==
    /\ \A f \in Frames : f.pc = "walk" => f.guard /\ mx.held
    /\ \A f \in Frames :
          f.pc \in {"allocate", "allocated", "copy", "deallocated"} => ~f.guard
    /\ \A f \in Frames : f.pc # "spin"
    /\ mx.held <=> \E f \in Frames : f.guard
    /\ mx.stack = <<>> => ~mx.held

\* C33 witness: the fallback of a realloc is inside its deallocate, which
\* holds the mutex, after its allocate found a fresh block
MutexDisciplineWitness ==
    /\ Len(mx.stack) = 2
    /\ mx.stack[1].fn = "reallocate"
    /\ mx.stack[1].pc = "deallocated"
    /\ mx.stack[2].fn = "push"
    /\ mx.stack[2].pc = "walk"
    /\ mx.held
    /\ mx.call.fresh # Null

\* the bytes a live block occupies: its expanded size from its address
BlockRange(b) ==
    [start |-> b.addr,
     size |-> NodeLayoutFrom([size |-> b.size, align |-> b.align]).size]

HoleRange(h) == [start |-> h.addr, size |-> h.size]

\* every word of the range lies in memory handed to init
InsideGiven(r) ==
    \A k \in 0..(Words(r.size) - 1) :
        \E g \in llHist.given :
            /\ g.start <= r.start + k * NodeAlign
            /\ r.start + (k + 1) * NodeAlign <= g.start + g.size

\* C34: after any sequence of alloc, free and realloc every live block
\* starts at a multiple of its requested alignment and lies inside memory
\* handed to init, live blocks (at their expanded sizes) are pairwise
\* disjoint and overlap no hole, every hole is at least a node large at a
\* node-aligned address, and no assertion of to_static_node, allocate or
\* reallocate fails in these calls.
ListBlocksSound ==
    /\ \A b \in llHist.live :
          /\ b.addr % b.align = 0
          /\ BlockRange(b).size >= b.size
          /\ InsideGiven(BlockRange(b))
    /\ \A b1 \in llHist.live : \A b2 \in llHist.live \ {b1} :
          ~RangesOverlap(BlockRange(b1), BlockRange(b2))
    /\ \A b \in llHist.live : \A h \in Holes(ll.nodes) :
          ~RangesOverlap(BlockRange(b), HoleRange(h))
    /\ \A h \in Holes(ll.nodes) :
          h.size >= NodeSize /\ h.addr % NodeAlign = 0
    /\ ll.panicked => llHist.last.op = "init"

\* C34 witness: after a realloc two blocks are live, one of them with an
\* alignment above the node's, and two holes are on the list
ListBlocksSoundWitness ==
    /\ llHist.last.op = "realloc"
    /\ llHist.last.ret # Null
    /\ Cardinality(llHist.live) = 2
    /\ \E b \in llHist.live : b.align > NodeAlign
    /\ Len(ll.nodes) >= 3
    /\ ~ll.panicked

(***************************************************************************)
(* More claims about the ELF loader                                        *)
(***************************************************************************)

\* C35: remove_mappings hands the frame deallocator only frames that
\* setup_mappings took as fresh backing of a segment's mem_size > file_size
\* part, each of them once and, when it has run to its end, all of them;
\* the pages mapped onto the ELF image are unmapped only: no frame of the
\* image ever reaches the deallocator.
ElfFreesOnlyFresh ==
    /\ FramesOf(mmu.freed) \subseteq FramesOf(mmu.fresh)
    /\ Cardinality(FramesOf(mmu.freed)) = Len(mmu.freed)
    /\ \A f \in FramesOf(mmu.freed) : ~InImage(f)
    /\ (mmu.phase = "removed" /\ ElfOk(mmu)) =>
          /\ FramesOf(mmu.freed) = FramesOf(mmu.fresh)
          /\ \A p \in FramesOf(mmu.mapped) : p \notin DOMAIN mmu.map

\* C35 witness: a removal that ran to its end unmapped pages that sat on
\* the image and gave back the two fresh frames of a user program
ElfFreesOnlyFreshWitness ==
    /\ mmu.phase = "removed"
    /\ ElfOk(mmu)
    /\ elf.user
    /\ Len(mmu.freed) = 2
    /\ Len(mmu.mapped) >= Len(mmu.fresh) + 2

\* the entries of the RELA64 sections in the order setup_mappings meets them
RECURSIVE RelaEntries(_, _)
RelaEntries(sections, k) ==
    IF k > Len(sections) THEN <<>>
    ELSE (IF sections[k].data = "Rela64" THEN sections[k].list ELSE <<>>)
            \o RelaEntries(sections, k + 1)

\* the stores relocate made, oldest first
IsReloc(w) == w.val.k = "reloc"
RelocStores(s) == SelectSeq(s.writes, IsReloc)

\* the results with which setup_mappings leaves its first loop early
LoadErrors == {"Mapping error", "No frame allocated", "Elf not mapped", "panic"}

HoldsSerial(f) ==
    \/ f.fn = "print" /\ f.pc \in {"write", "unlock"}
    \/ f.fn = "kernel" /\ f.pc = "serial_locked"

SerialHeldRight ==
    /\ cpu.serial <=> \E i \in DOMAIN cpu.stack : HoldsSerial(cpu.stack[i])
    /\ \A i \in DOMAIN cpu.stack :
          LET f == cpu.stack[i] IN
          /\ (f.fn = "print" /\ HoldsSerial(f)) =>
                ~cpu.intf /\ i = Len(cpu.stack)
          /\ f.fn = "timer" =>
                \A j \in 1..(i - 1) : ~HoldsSerial(cpu.stack[j])
          /\ f.pc # "spin"

PrintRestores ==
    (CpuAt("print", "sti") /\ Len(cpu'.stack) < Len(cpu.stack)) =>
        cpu'.intf = Top(cpu).entry

\* C37: print holds the SERIAL1 lock only while the interrupts are disabled
\* and nothing runs on top of it, print leaves the interrupt flag as it was
\* when it was called, the timer handler never runs on top of code that
\* holds the lock, and no lock() of the serial port ever has to spin.
SerialDiscipline == []SerialHeldRight /\ [][PrintRestores]_vars

\* the timer interrupt came in while the kernel was in print with the
\* interrupts still enabled, and the handler's own print holds the lock
SerialDisciplineWitness ==
    /\ Len(cpu.stack) = 4
    /\ cpu.stack[2].fn = "print" /\ cpu.stack[2].entry
    /\ cpu.stack[3].fn = "timer"
    /\ cpu.stack[4].fn = "print" /\ cpu.stack[4].pc = "write"
    /\ ~cpu.stack[4].entry
    /\ cpu.serial

(***************************************************************************)
(* Claims about the pointers of the ELF loader                             *)
(***************************************************************************)

\* C38: when a user image is loaded under the kernel page table, every
\* pointer the loader dereferences (source and destination of the copy into
\* a fresh frame, the zeroing of a fresh frame, the store of a relocation)
\* lies in the window at boot::offset::USIZE, never at the bare physical
\* address.
ElfDerefsThroughOffset ==
    elf.user =>
        \A k \in DOMAIN mmu.derefs : mmu.derefs[k].ptr.slot = 1

\* the relocations alone: every store of relocate goes through the window
ElfRelocThroughOffset ==
    elf.user =>
        \A k \in DOMAIN mmu.derefs :
            mmu.derefs[k].kind = "reloc" => mmu.derefs[k].ptr.slot = 1

Faults == {"page_fault", "double_fault"}

\* the fields of the CPU a log line leaves alone
Quiet(c) ==
    [c EXCEPT !.stack = <<>>, !.intf = FALSE, !.serial = FALSE, !.out = <<>>]

\* what a step does while breakpoint_handler is in progress: the kernel
\* frame below waits at the instruction after the int3, nothing but the
\* serial output changes, and the iretq follows the one line logged
BreakpointStep ==
    \A i \in DOMAIN cpu.stack :
        cpu.stack[i].fn = "breakpoint" =>
            /\ i > 1
            /\ cpu.stack[i - 1].fn = "kernel"
            /\ cpu.stack[i - 1].pc = "after_int3"
            /\ Len(cpu'.stack) >= i - 1
            /\ SubSeq(cpu'.stack, 1, i - 1) = SubSeq(cpu.stack, 1, i - 1)
            /\ Quiet(cpu') = Quiet(cpu)
            /\ Len(cpu'.stack) < i =>
                  /\ cpu'.out = cpu.out
                  /\ cpu.out # <<>>
                  /\ cpu.out[Len(cpu.out)] = "Breakpoint"
                  /\ cpu'.intf = cpu.stack[i].rflags
                  /\ ~cpu'.serial

\* a fault handler is never left: the code it interrupted stays below it
FaultStays ==
    \A i \in DOMAIN cpu.stack :
        cpu.stack[i].fn \in Faults =>
            /\ Len(cpu'.stack) >= i
            /\ SubSeq(cpu'.stack, 1, i) # SubSeq(cpu.stack, 1, i) =>
                  /\ SubSeq(cpu'.stack, 1, i - 1) = SubSeq(cpu.stack, 1, i - 1)
                  /\ cpu'.stack[i].fn = cpu.stack[i].fn

FaultTaken == \E i \in DOMAIN cpu.stack : cpu.stack[i].fn \in Faults

\* the handler has logged its line and panicked, the panic handler has
\* printed its four lines and sits in hlt with the interrupts disabled
FaultHalted ==
    /\ cpu.halted /\ ~cpu.intf /\ ~cpu.serial
    /\ Len(cpu.stack) >= 3
    /\ CpuAt("panic_handler", "hlt")
    /\ LET h == cpu.stack[Len(cpu.stack) - 1]
           n == Len(cpu.out)
       IN /\ h.fn \in Faults
          /\ h.pc = "panicked"
          /\ n >= 5
          /\ SubSeq(cpu.out, n - 4, n) =
                <<HandlerLine(h.fn), "", "KERNEL PANIC", "", "PanicInfo">>

\* C39: a breakpoint is handled by one log line and the kernel goes on at
\* the instruction after the int3 with its interrupt flag as before; a page
\* fault or a double fault never returns to the code it interrupted: its
\* handler logs, panics, and the CPU ends in hlt with the interrupts
\* disabled, for ever.
FaultsAreFinal ==
    /\ [][BreakpointStep /\ FaultStays]_vars
    /\ FaultTaken ~> []FaultHalted

\* the kernel went through an int3, came back, ran into a page fault and
\* now sits in hlt
FaultsAreFinalWitness ==
    /\ FaultHalted
    /\ cpu.stack[2].fn = "page_fault"
    /\ \E k \in DOMAIN cpu.out : cpu.out[k] = "Breakpoint"
    /\ cpu.ops = 2

(***************************************************************************)
(* Claims about the registers a syscall returns with                       *)
(***************************************************************************)

\* what a syscall reports, from the call and the frame buffer alone
SyscallResult(call, fb) ==
    IF call.code = LogCode
    THEN (IF Utf8Valid(call.bytes) THEN 0 ELSE 1)
    ELSE IF call.code = FrameBufferCode
    THEN (IF fb.some /\ fb.format \in {"Rgb", "Bgr"} THEN 0 ELSE 1)
    ELSE 1

\* rax and rip alone: the result is that of this syscall, and the program
\* goes on behind its SYSCALL
SyscallResultFresh ==
    (sys.mode = "user" /\ sys.handled > 0) =>
        /\ sys.rax = SyscallResult(sysLast.call, sys.fb)
        /\ sys.user.rip = sys.at.rip + 1

\* a syscall that succeeded right after one that failed
SyscallResultFreshSeen ==
    /\ sys.mode = "user"
    /\ sys.handled >= 2
    /\ sysLast.rax = 1
    /\ sys.rax = 0

====
